---- MODULE Spec2Model ----
(***************************************************************************)
(* Hybrid retrieval core of fin-vault-ai (backend/app/core/retrieval.py,   *)
(* core/vector.py, core/schema.py, api/routes.py).                         *)
(*                                                                         *)
(* Python values are represented as follows.                               *)
(*   str        a sequence of one-character strings, <<"r","o","e">>       *)
(*   Optional   None is <<>>, a present value x is <<x>>                   *)
(*   list       a sequence                                                 *)
(*   float      a similarity score is an integer number of hundredths      *)
(*   exception  a call returns a record whose field raised tells whether   *)
(*              an exception left the callee                               *)
(***************************************************************************)
EXTENDS Integers, Sequences, FiniteSets, TLC

VARIABLES db, call, req

vars == <<db, call, req>>

(***************************************************************************)
(* Bounds of the model.                                                    *)
(***************************************************************************)
MaxFrag == 3
MaxRows == 2
MaxTickers == 2
MaxHits == 2
BulkPerTicker == 51
MaxMetrics == 16
MaxChunks == 6

(***************************************************************************)
(* Python built-ins.                                                       *)
(***************************************************************************)
None == <<>>
Some(x) == <<x>>
IsNone(o) == o = <<>>
Val(o) == o[1]

\* bool(o) of an Optional[str] or Optional[list]: None and the empty value are falsy
Truthy(o) == ~IsNone(o) /\ Val(o) # <<>>

Min(a, b) == IF a < b THEN a ELSE b
Max(a, b) == IF a > b THEN a ELSE b

UpperLetters ==
  <<"A","B","C","D","E","F","G","H","I","J","K","L","M",
    "N","O","P","Q","R","S","T","U","V","W","X","Y","Z">>
LowerLetters ==
  <<"a","b","c","d","e","f","g","h","i","j","k","l","m",
    "n","o","p","q","r","s","t","u","v","w","x","y","z">>

LowerChar(c) ==
  IF \E i \in 1..Len(UpperLetters) : UpperLetters[i] = c
  THEN LowerLetters[CHOOSE i \in 1..Len(UpperLetters) : UpperLetters[i] = c]
  ELSE c
UpperChar(c) ==
  IF \E i \in 1..Len(LowerLetters) : LowerLetters[i] = c
  THEN UpperLetters[CHOOSE i \in 1..Len(LowerLetters) : LowerLetters[i] = c]
  ELSE c

\* str.lower(), str.upper()
StrLower(s) == [i \in 1..Len(s) |-> LowerChar(s[i])]
StrUpper(s) == [i \in 1..Len(s) |-> UpperChar(s[i])]

\* str.strip(): leading and trailing blanks removed
StrStrip(s) ==
  LET nonblank == {i \in 1..Len(s) : s[i] # " "}
  IN IF nonblank = {} THEN <<>>
     ELSE LET lo == CHOOSE i \in nonblank : \A j \in nonblank : i <= j
              hi == CHOOSE i \in nonblank : \A j \in nonblank : i >= j
          IN SubSeq(s, lo, hi)

\* kw in s, for non-empty kw
StrContains(kw, s) ==
  \E i \in 1..(Len(s) - Len(kw) + 1) : SubSeq(s, i, i + Len(kw) - 1) = kw

RECURSIVE Concat(_)
Concat(ss) == IF ss = <<>> THEN <<>> ELSE Head(ss) \o Concat(Tail(ss))

\* s[:n]
Take(s, n) == SubSeq(s, 1, Min(Len(s), n))

(***************************************************************************)
(* Query classifier, retrieval.py:291-332.                                 *)
(***************************************************************************)
numeric_keywords ==
  << <<"c","o","m","p","a","r","e">>,
     <<"r","e","v","e","n","u","e">>,
     <<"p","r","o","f","i","t">>,
     <<"m","a","r","g","i","n">>,
     <<"r","o","e">>,
     <<"r","o","a">>,
     <<"g","r","o","w","t","h">>,
     <<"v","s">>,
     <<"h","i","g","h","e","r">>,
     <<"l","o","w","e","r">>,
     <<"r","a","t","i","o">>,
     <<"m","e","t","r","i","c">>,
     <<"e","a","r","n","i","n","g","s">>,
     <<"a","s","s","e","t","s">>,
     <<"h","o","w"," ","m","u","c","h">>,
     <<"w","h","a","t"," ","i","s">>,
     <<"f","i","n","a","n","c","i","a","l">>,
     <<"b","a","l","a","n","c","e">>,
     <<"c","a","s","h">>,
     <<"d","e","b","t">> >>

narrative_keywords ==
  << <<"w","h","y">>,
     <<"e","x","p","l","a","i","n">>,
     <<"m","a","n","a","g","e","m","e","n","t">>,
     <<"r","i","s","k">>,
     <<"s","t","r","a","t","e","g","y">>,
     <<"o","u","t","l","o","o","k">>,
     <<"c","o","m","m","e","n","t","a","r","y">>,
     <<"d","i","s","c","u","s","s","i","o","n">>,
     <<"a","n","a","l","y","s","t">>,
     <<"t","r","a","n","s","c","r","i","p","t">>,
     <<"c","a","l","l">>,
     <<"g","u","i","d","a","n","c","e">>,
     <<"c","h","a","l","l","e","n","g","e","s">>,
     <<"o","p","p","o","r","t","u","n","i","t","i","e","s">>,
     <<"c","o","m","p","e","t","i","t","i","v","e">>,
     <<"b","u","s","i","n","e","s","s"," ","m","o","d","e","l">>,
     <<"t","h","r","e","a","t">>,
     <<"s","t","r","e","n","g","t","h">> >>

\* sum(1 for kw in keywords if kw in query_lower)
KeywordCount(keywords, query_lower) ==
  Cardinality({i \in 1..Len(keywords) : StrContains(keywords[i], query_lower)})

\* the mode chosen from the two counts, retrieval.py:324-329
ModeOfCountsTieNumeric(numeric_count, narrative_count) ==
  IF numeric_count >= narrative_count THEN "numeric"
  ELSE "narrative"

ModeOfCounts(numeric_count, narrative_count) ==
  IF numeric_count > narrative_count THEN "numeric"
  ELSE IF narrative_count > numeric_count THEN "narrative"
  ELSE "hybrid"

classify_query_mode(query) ==
  LET query_lower == StrLower(query)
      numeric_count == KeywordCount(numeric_keywords, query_lower)
      narrative_count == KeywordCount(narrative_keywords, query_lower)
  IN ModeOfCounts(numeric_count, narrative_count)

\* the queries of PHASE2_TEST_QUERIES, test_phase2.py:29-48
TestQuery1 ==
  <<"C","o","m","p","a","r","e"," ","A","p","p","l","e"," ","a","n","d"," ",
    "M","i","c","r","o","s","o","f","t"," ","f","i","n","a","n","c","i","a","l",
    " ","p","e","r","f","o","r","m","a","n","c","e"," ","i","n"," ","2","0","2","5">>
TestQuery2 ==
  <<"W","h","a","t"," ","i","s"," ","A","p","p","l","e","'","s"," ","o","u","t",
    "l","o","o","k"," ","f","o","r"," ","A","I"," ","a","n","d"," ","w","h","a",
    "t"," ","r","i","s","k","s"," ","e","x","i","s","t","?">>
TestQuery3 ==
  <<"G","e","n","e","r","a","t","e"," ","b","u","l","l"," ","a","n","d"," ",
    "b","e","a","r"," ","t","h","e","s","i","s"," ","f","o","r"," ","A","p","p",
    "l","e"," ","F","Y","2","0","2","5">>

\* fragments from which the classifier's input queries are built
QueryFragments ==
  { <<"R","e","v","e","n","u","e"," ">>,
    <<"P","r","o","f","i","t"," ","m","a","r","g","i","n"," ">>,
    <<"h","e","r","o","e","s"," ">>,
    <<"h","o","w"," ">>,
    <<"m","u","c","h"," ">>,
    <<"W","H","Y"," ">>,
    <<"r","i","s","k","s"," ">>,
    <<"r","e","c","a","l","l"," ">>,
    <<"t","e","a"," ">> }

RECURSIVE FragmentQueries(_)
FragmentQueries(n) ==
  IF n = 0 THEN {<<>>}
  ELSE LET shorter == FragmentQueries(n - 1)
       IN shorter \cup {q \o f : q \in shorter, f \in QueryFragments}

ClassifierQueries == FragmentQueries(MaxFrag) \cup {TestQuery1, TestQuery2, TestQuery3}

(***************************************************************************)
(* Relational backend: table financial_metrics, schema.py:16-60, and its   *)
(* query get_financial_metrics, schema.py:203-246.                         *)
(* A row is [id, company, ticker, year]: company is NOT NULL (it may be    *)
(* the empty string), ticker is nullable, year is a NOT NULL integer.     *)
(***************************************************************************)
MinYear == 2000
MaxYear == 2100
MaxLimit == 100

TickAA == <<"A","A">>
TickB == <<"B">>
CompAc == <<"A","c">>
CompBo == <<"B","o">>

\* the rows a table may hold; their years are distinct, so ORDER BY year is total.
\* Of the NUMERIC columns, all nullable (schema.py:24-25), revenue and net_income
\* are kept: None is NULL
RowUniverse ==
  { [id |-> 1, company |-> CompAc, ticker |-> Some(TickAA), year |-> 2024,
     revenue |-> Some(2000000000), net_income |-> Some(500000000)],
    [id |-> 2, company |-> CompAc, ticker |-> None,         year |-> 2023,
     revenue |-> Some(1900000000), net_income |-> Some(400000000)],
    [id |-> 3, company |-> <<>>,   ticker |-> Some(TickAA), year |-> 2022,
     revenue |-> Some(1800000000), net_income |-> Some(300000000)],
    [id |-> 4, company |-> CompBo, ticker |-> Some(TickB),  year |-> 1999,
     revenue |-> None,             net_income |-> Some(100000000)],
    [id |-> 5, company |-> CompBo, ticker |-> Some(TickB),  year |-> 2025,
     revenue |-> Some(960000000),  net_income |-> Some(-40000000)] }

Tables == {t \in SUBSET RowUniverse : Cardinality(t) <= MaxRows}

\* a table with many fiscal years of two companies, all years distinct:
\* BulkPerTicker rows of the first from MinYear on, then one row less of the second
BulkRows(ticker, company, first_id, first_year, n) ==
  {[id |-> first_id + i, company |-> company, ticker |-> Some(ticker),
    year |-> first_year + i - 1,
    revenue |-> Some(1000000000 + i), net_income |-> Some(1000000 * i)] : i \in 1..n}
BulkTable ==
  BulkRows(TickAA, CompAc, 100, MinYear, BulkPerTicker)
  \cup BulkRows(TickB, CompBo, 200, MinYear + BulkPerTicker, BulkPerTicker - 1)

\* ORDER BY year DESC, for rows of distinct years: the years that occur, from the
\* latest to the earliest, each with its row
OrderByYearDesc(rows) ==
  IF rows = {} THEN <<>>
  ELSE LET years == {r.year : r \in rows}
           latest == CHOOSE y \in years : \A z \in years : z <= y
           earliest == CHOOSE y \in years : \A z \in years : y <= z
           descending == SelectSeq([i \in 1..(latest - earliest + 1) |-> latest - i + 1],
                                   LAMBDA y : y \in years)
       IN [i \in 1..Len(descending) |-> CHOOSE r \in rows : r.year = descending[i]]

\* connect_fails: psycopg2 raises inside the try block, which returns []
get_financial_metrics(company, ticker, year, limit, rows, connect_fails) ==
  IF connect_fails \/ limit < 0 THEN <<>>
  ELSE LET matching ==
             {r \in rows :
                /\ Truthy(company) => r.company = Val(company)
                /\ Truthy(ticker) => r.ticker = ticker
                /\ (~IsNone(year) /\ Val(year) # 0) => r.year = Val(year)}
       IN Take(OrderByYearDesc(matching), limit)

(***************************************************************************)
(* Structured metrics retriever, retrieval.py:55-215.                      *)
(***************************************************************************)
\* retrieval.py:89  [t.upper().strip() for t in tickers if t.strip()]
NormalizeTickers(tickers) ==
  LET kept == SelectSeq(tickers, LAMBDA t : StrStrip(t) # <<>>)
  IN [i \in 1..Len(kept) |-> StrStrip(StrUpper(kept[i]))]

\* retrieval.py:96  [c.strip() for c in companies if c.strip()]
NormalizeCompanies(companies) ==
  LET kept == SelectSeq(companies, LAMBDA c : StrStrip(c) # <<>>)
  IN [i \in 1..Len(kept) |-> StrStrip(kept[i])]

\* retrieval.py:103  [y for y in years if 2000 <= y <= 2100]
NormalizeYears(years) == SelectSeq(years, LAMBDA y : MinYear <= y /\ y <= MaxYear)

\* retrieval.py:136, 169, 198 (year is never None: the column is NOT NULL)
YearValid(year) == ~(year < MinYear \/ year > MaxYear)

\* retrieval.py:130-140
ValidTickerMetric(metric) ==
  /\ ~(~Truthy(metric.ticker) \/ metric.company = <<>>)
  /\ YearValid(metric.year)

\* retrieval.py:164-173
ValidCompanyMetric(metric) ==
  /\ ~(metric.company = <<>>)
  /\ YearValid(metric.year)

\* retrieval.py:193-202
ValidDefaultMetric(metric) == YearValid(metric.year)

BackendCall(company, ticker, limit, failed, metrics) ==
  [company |-> company, ticker |-> ticker, limit |-> limit,
   failed |-> failed, metrics |-> metrics]

\* retrieval.py:113-147, the loop from its i-th ticker on
RECURSIVE TickerLoopOverwrite(_, _, _, _, _)
TickerLoopOverwrite(tickers, limit, rows, fails, i) ==
  IF i > Len(tickers) THEN [all_metrics |-> <<>>, calls |-> <<>>]
  ELSE LET metrics == get_financial_metrics(None, Some(tickers[i]), None, limit,
                                            rows, fails[i])
           valid_metrics == SelectSeq(metrics, ValidTickerMetric)
           rest == TickerLoopOverwrite(tickers, limit, rows, fails, i + 1)
       IN [all_metrics |-> IF i = Len(tickers) THEN valid_metrics
                           ELSE rest.all_metrics,
           calls |-> <<BackendCall(None, Some(tickers[i]), limit, fails[i], metrics)>>
                     \o rest.calls]

RECURSIVE TickerLoop(_, _, _, _, _)
TickerLoop(tickers, limit, rows, fails, i) ==
  IF i > Len(tickers) THEN [all_metrics |-> <<>>, calls |-> <<>>]
  ELSE LET metrics == get_financial_metrics(None, Some(tickers[i]), None, limit,
                                            rows, fails[i])
           valid_metrics == SelectSeq(metrics, ValidTickerMetric)
           rest == TickerLoop(tickers, limit, rows, fails, i + 1)
       IN [all_metrics |-> valid_metrics \o rest.all_metrics,
           calls |-> <<BackendCall(None, Some(tickers[i]), limit, fails[i], metrics)>>
                     \o rest.calls]

\* retrieval.py:151-180, the loop from its i-th company on
RECURSIVE CompanyLoop(_, _, _, _, _)
CompanyLoop(companies, limit, rows, fails, i) ==
  IF i > Len(companies) THEN [all_metrics |-> <<>>, calls |-> <<>>]
  ELSE LET metrics == get_financial_metrics(Some(companies[i]), None, None, limit,
                                            rows, fails[i])
           valid_metrics == SelectSeq(metrics, ValidCompanyMetric)
           rest == CompanyLoop(companies, limit, rows, fails, i + 1)
       IN [all_metrics |-> valid_metrics \o rest.all_metrics,
           calls |-> <<BackendCall(Some(companies[i]), None, limit, fails[i], metrics)>>
                     \o rest.calls]

\* retrieval.py:184-208
DefaultQuery(limit, rows, fails) ==
  LET metrics == get_financial_metrics(None, None, None, limit, rows, fails[1])
  IN [all_metrics |-> SelectSeq(metrics, ValidDefaultMetric),
      calls |-> <<BackendCall(None, None, limit, fails[1], metrics)>>]

StructuredReturn(path, limit, years, body) ==
  [raised |-> FALSE, metrics |-> body.all_metrics, path |-> path,
   limit |-> limit, years |-> years, calls |-> body.calls]

\* retrieval.py:85  limit = min(max(limit, 1), 100)
ClampLimit(limit) == Min(Max(limit, 1), MaxLimit)

\* fails[i]: the i-th backend query of the call fails
retrieve_structured_metrics(tickers, companies, years, limit, rows, fails) ==
  LET lim == ClampLimit(limit)
      tk == IF Truthy(tickers) THEN Some(NormalizeTickers(Val(tickers))) ELSE tickers
      co == IF Truthy(companies) THEN Some(NormalizeCompanies(Val(companies)))
            ELSE companies
      yr == IF Truthy(years)
            THEN (IF NormalizeYears(Val(years)) = <<>> THEN None
                  ELSE Some(NormalizeYears(Val(years))))
            ELSE years
      nothing == [all_metrics |-> <<>>, calls |-> <<>>]
  IN IF Truthy(tickers) /\ ~Truthy(tk)
       THEN StructuredReturn("tickers_blank", lim, years, nothing)
     ELSE IF Truthy(companies) /\ ~Truthy(co)
       THEN StructuredReturn("companies_blank", lim, years, nothing)
     ELSE IF Truthy(tk)
       THEN StructuredReturn("tickers", lim, yr, TickerLoop(Val(tk), lim, rows, fails, 1))
     ELSE IF Truthy(co)
       THEN StructuredReturn("companies", lim, yr,
                             CompanyLoop(Val(co), lim, rows, fails, 1))
     ELSE StructuredReturn("default", lim, yr, DefaultQuery(lim, rows, fails))

(***************************************************************************)
(* Semantic narrative retriever, vector.py:29-136.                         *)
(* A text is represented by its length. A point of the vector backend is   *)
(* [id, payload, score]; its payload is None or a record. A payload value  *)
(* that is not a string is NotAString where a short string is expected and *)
(* NotText where a text is.                                                *)
(***************************************************************************)
MaxTopK == 10
PreviewChars == 500
MaxChunkChars == 800

Unknown == <<"U","n","k","n","o","w","n">>

NotAString == <<"NOT_A_STR">>
NotText == -1
IsStr(x) == x # NotAString

\* (result.payload or {}).get(field, default)
PayloadGet(point, field, default) ==
  IF IsNone(point.payload) THEN default ELSE Val(point.payload)[field]

\* x in xs
InList(x, xs) == \E i \in 1..Len(xs) : xs[i] = x

\* vector.py:110-115
PassesPostFilter(point, tickers, years, doc_types) ==
  /\ ~(Truthy(tickers)
       /\ ~InList(StrUpper(PayloadGet(point, "ticker", <<>>)),
                  [i \in 1..Len(Val(tickers)) |-> StrUpper(Val(tickers)[i])]))
  /\ ~(Truthy(years) /\ ~InList(PayloadGet(point, "year", 0), Val(years)))
  /\ ~(Truthy(doc_types) /\ ~InList(PayloadGet(point, "doc_type", "unknown"), Val(doc_types)))

\* vector.py:117-129
FormatResult(point) ==
  [point_id |-> point.id,
   text |-> Min(PayloadGet(point, "summary", 0), PreviewChars),
   metadata |-> [company |-> PayloadGet(point, "company", "Unknown"),
                 ticker |-> PayloadGet(point, "ticker", Unknown),
                 year |-> PayloadGet(point, "year", 0),
                 doc_type |-> PayloadGet(point, "doc_type", "unknown"),
                 section_title |-> PayloadGet(point, "section_title", ""),
                 chunk_id |-> PayloadGet(point, "chunk_id", 0)],
   similarity_score |-> point.score]

\* vector.py:110 and 119: the string operations of the loop body that raise on a
\* payload value of another type (.upper() of the ticker when tickers are given,
\* [:500] of the summary of a point that passed the filter)
ItemRaises(point, tickers, years, doc_types) ==
  \/ Truthy(tickers) /\ ~IsStr(PayloadGet(point, "ticker", <<>>))
  \/ /\ PassesPostFilter(point, tickers, years, doc_types)
     /\ PayloadGet(point, "summary", 0) = NotText

\* vector.py:91-99: the backend's answer to search_points; it honours limit.
\* qdrant.points are the points of the collection in the order of the search
search_points(query_vector, limit, score_threshold, qdrant) == Take(qdrant.points, limit)

\* vector.py:62-63 with top_k unclamped
SearchParamsUnclamped(top_k, score_threshold) ==
  [top_k |-> top_k, score_threshold |-> Max(0, Min(score_threshold, 100))]

\* vector.py:62-63
SearchParams(top_k, score_threshold) ==
  [top_k |-> Min(Max(top_k, 1), MaxTopK),
   score_threshold |-> Max(0, Min(score_threshold, 100))]

\* qdrant.status: "unconfigured" (get_qdrant_client raises), "no_collection"
\* (get_collection raises), "search_error" (search_points raises) or "ok".
\* The loop over the results has no try block of its own: an exception in it
\* reaches the except of vector.py:134-136, which returns []
search_narrative(query_embedding, tickers, years, doc_types, top_k, score_threshold, qdrant) ==
  LET params == SearchParams(top_k, score_threshold)
      search_results == search_points(query_embedding, params.top_k,
                                      params.score_threshold, qdrant)
      item_raised == \E i \in 1..Len(search_results) :
                        ItemRaises(search_results[i], tickers, years, doc_types)
      kept == SelectSeq(search_results,
                        LAMBDA point : PassesPostFilter(point, tickers, years, doc_types))
  IN [raised |-> FALSE,
      searched |-> qdrant.status \in {"search_error", "ok"},
      top_k |-> params.top_k,
      score_threshold |-> params.score_threshold,
      search_results |-> IF qdrant.status = "ok" THEN search_results ELSE <<>>,
      item_raised |-> qdrant.status = "ok" /\ item_raised,
      results |-> IF qdrant.status = "ok" /\ ~item_raised
                  THEN [i \in 1..Len(kept) |-> FormatResult(kept[i])]
                  ELSE <<>>]

(***************************************************************************)
(* Hybrid retrieval orchestrator, retrieval.py:335-463.                    *)
(* A mode, as the other short labels, is a TLA+ string.                    *)
(***************************************************************************)
MinNumericLimit == 10
MaxNarrativeLimit == 5
SearchThreshold == 40

\* the queries the orchestrator and the /query handler are tried with
RequestQueries == {TestQuery1, TestQuery2, TestQuery3}

\* classify_query_mode is pure: its value on each of these queries, computed once
Classified == [query \in RequestQueries |-> classify_query_mode(query)]

\* bool(force_mode): None and '' are falsy
ModeTruthy(o) == ~IsNone(o) /\ Val(o) # ""

\* retrieval.py:371  mode = force_mode or classify_query_mode(query)
ResolveMode(query, force_mode, classifier_raises) ==
  IF ModeTruthy(force_mode) THEN [raised |-> FALSE, mode |-> Val(force_mode)]
  ELSE IF classifier_raises THEN [raised |-> TRUE, mode |-> ""]
  ELSE [raised |-> FALSE, mode |-> Classified[query]]

\* retrieval.py:389-403 with the mode test ignored
NumericRetrievalAnyMode(mode, tickers, numeric_limit, rows, env) ==
  IF env.structured_raises
  THEN [called |-> TRUE, raised |-> TRUE, ret |-> None, numeric_data |-> <<>>]
  ELSE LET ret == retrieve_structured_metrics(tickers, None, None, numeric_limit,
                                              rows, env.fails)
       IN [called |-> TRUE, raised |-> FALSE, ret |-> Some(ret),
           numeric_data |-> ret.metrics]

\* retrieval.py:389-403. env.structured_raises: the call of the retriever raises
NumericRetrieval(mode, tickers, numeric_limit, rows, env) ==
  IF mode \in {"numeric", "hybrid"}
  THEN IF env.structured_raises
       THEN [called |-> TRUE, raised |-> TRUE, ret |-> None, numeric_data |-> <<>>]
       ELSE LET ret == retrieve_structured_metrics(tickers, None, None, numeric_limit,
                                                   rows, env.fails)
            IN [called |-> TRUE, raised |-> FALSE, ret |-> Some(ret),
                numeric_data |-> ret.metrics]
  ELSE [called |-> FALSE, raised |-> FALSE, ret |-> None, numeric_data |-> <<>>]

\* retrieval.py:431-440 with text and score taken as they come
ToNarrativeChunkRaw(result) ==
  [doc_type |-> result.metadata.doc_type,
   company |-> result.metadata.company,
   ticker |-> result.metadata.ticker,
   year |-> result.metadata.year,
   text |-> result.text,
   section_title |-> result.metadata.section_title,
   point_id |-> result.point_id,
   score |-> result.similarity_score]

\* retrieval.py:431-440
ToNarrativeChunk(result) ==
  [doc_type |-> result.metadata.doc_type,
   company |-> result.metadata.company,
   ticker |-> result.metadata.ticker,
   year |-> result.metadata.year,
   text |-> Min(result.text, MaxChunkChars),
   section_title |-> result.metadata.section_title,
   point_id |-> result.point_id,
   score |-> Max(0, Min(result.similarity_score, 100))]

\* retrieval.py:406-451 with the mode test ignored
NarrativeRetrievalAnyMode(mode, embeddings_model_fn, tickers, narrative_limit, env) ==
  IF ~IsNone(embeddings_model_fn)
  THEN LET embed == Val(embeddings_model_fn)
       IN IF embed = "returns_vector"
          THEN LET ret == search_narrative(<<1>>, tickers, None, None, narrative_limit,
                                           SearchThreshold, env.qdrant)
                   shown == Take(ret.results, narrative_limit)
               IN [embedded |-> TRUE, raised |-> FALSE, ret |-> Some(ret),
                   narrative_chunks |-> [i \in 1..Len(shown) |-> ToNarrativeChunk(shown[i])]]
          ELSE [embedded |-> TRUE, raised |-> embed = "raises", ret |-> None,
                narrative_chunks |-> <<>>]
  ELSE [embedded |-> FALSE, raised |-> FALSE, ret |-> None, narrative_chunks |-> <<>>]

\* retrieval.py:406-451. embeddings_model_fn is None or a stub named by what it
\* does: "returns_none", "returns_empty", "raises", "returns_vector"
NarrativeRetrieval(mode, embeddings_model_fn, tickers, narrative_limit, env) ==
  IF mode \in {"narrative", "hybrid"} /\ ~IsNone(embeddings_model_fn)
  THEN LET embed == Val(embeddings_model_fn)
       IN IF embed = "returns_vector"
          THEN LET ret == search_narrative(<<1>>, tickers, None, None, narrative_limit,
                                           SearchThreshold, env.qdrant)
                   shown == Take(ret.results, narrative_limit)
               IN [embedded |-> TRUE, raised |-> FALSE, ret |-> Some(ret),
                   narrative_chunks |-> [i \in 1..Len(shown) |-> ToNarrativeChunk(shown[i])]]
          ELSE [embedded |-> TRUE, raised |-> embed = "raises", ret |-> None,
                narrative_chunks |-> <<>>]
  ELSE [embedded |-> FALSE, raised |-> FALSE, ret |-> None, narrative_chunks |-> <<>>]

\* retrieval.py:379-384, 399, 446, 454 with the counts left at their initial 0
RetrievalSummaryStale(mode, numeric_data, narrative_chunks, elapsed_ms) ==
  [query_mode |-> mode, numeric_retrieved |-> 0, narrative_retrieved |-> 0,
   latency_ms |-> elapsed_ms]

\* retrieval.py:379-384, 399, 446, 454
RetrievalSummary(mode, numeric_data, narrative_chunks, elapsed_ms) ==
  [query_mode |-> mode,
   numeric_retrieved |-> Len(numeric_data),
   narrative_retrieved |-> Len(narrative_chunks),
   latency_ms |-> elapsed_ms]

\* retrieval.py:374-385
HybridContext(query, mode, numeric_data, narrative_chunks, elapsed_ms) ==
  [query |-> query, mode |-> mode, numeric_data |-> numeric_data,
   narrative_chunks |-> narrative_chunks,
   retrieval_summary |-> RetrievalSummary(mode, numeric_data, narrative_chunks,
                                          elapsed_ms)]

HybridReturn(raised, context, numeric, narrative) ==
  [raised |-> raised, context |-> context,
   structured_called |-> numeric.called, structured_raised |-> numeric.raised,
   structured_ret |-> numeric.ret,
   embedded |-> narrative.embedded, semantic_raised |-> narrative.raised,
   semantic_ret |-> narrative.ret]

NotRun == [called |-> FALSE, embedded |-> FALSE, raised |-> FALSE, ret |-> None]

\* the retrievals in one try block: a failure of either one empties both
perform_hybrid_retrieval_OneTry(query, embeddings_model_fn, tickers, force_mode, numeric_limit, narrative_limit, rows, env) ==
  LET resolved == ResolveMode(query, force_mode, env.classifier_raises)
      mode == resolved.mode
      numeric == NumericRetrieval(mode, tickers,
                   Min(Max(numeric_limit, MinNumericLimit), MaxLimit), rows, env)
      narrative == NarrativeRetrieval(mode, embeddings_model_fn, tickers,
                     Min(Max(narrative_limit, 1), MaxNarrativeLimit), env)
      failed == numeric.raised \/ narrative.raised
  IN IF resolved.raised THEN HybridReturn(TRUE, None, NotRun, NotRun)
     ELSE HybridReturn(FALSE,
            Some(HybridContext(query, mode,
                   IF failed THEN <<>> ELSE numeric.numeric_data,
                   IF failed THEN <<>> ELSE narrative.narrative_chunks,
                   env.elapsed_ms)),
            numeric, narrative)

\* no try block: an exception of a retrieval leaves the function
perform_hybrid_retrieval_NoTry(query, embeddings_model_fn, tickers, force_mode, numeric_limit, narrative_limit, rows, env) ==
  LET resolved == ResolveMode(query, force_mode, env.classifier_raises)
      mode == resolved.mode
      numeric == NumericRetrieval(mode, tickers,
                   Min(Max(numeric_limit, MinNumericLimit), MaxLimit), rows, env)
      narrative == NarrativeRetrieval(mode, embeddings_model_fn, tickers,
                     Min(Max(narrative_limit, 1), MaxNarrativeLimit), env)
  IN IF resolved.raised THEN HybridReturn(TRUE, None, NotRun, NotRun)
     ELSE IF numeric.raised THEN HybridReturn(TRUE, None, numeric, NotRun)
     ELSE IF narrative.raised THEN HybridReturn(TRUE, None, numeric, narrative)
     ELSE HybridReturn(FALSE,
            Some(HybridContext(query, mode, numeric.numeric_data,
                               narrative.narrative_chunks, env.elapsed_ms)),
            numeric, narrative)

\* env: the outcomes of the collaborators during this call
perform_hybrid_retrieval(query, embeddings_model_fn, tickers, force_mode, numeric_limit, narrative_limit, rows, env) ==
  LET resolved == ResolveMode(query, force_mode, env.classifier_raises)
      mode == resolved.mode
      numeric == NumericRetrieval(mode, tickers,
                   Min(Max(numeric_limit, MinNumericLimit), MaxLimit), rows, env)
      narrative == NarrativeRetrieval(mode, embeddings_model_fn, tickers,
                     Min(Max(narrative_limit, 1), MaxNarrativeLimit), env)
  IN IF resolved.raised THEN HybridReturn(TRUE, None, NotRun, NotRun)
     ELSE HybridReturn(FALSE,
            Some(HybridContext(query, mode, numeric.numeric_data,
                               narrative.narrative_chunks, env.elapsed_ms)),
            numeric, narrative)

(***************************************************************************)
(* Embedding function, embeddings.py:48-72: what a call of it does for its *)
(* caller. model: "unavailable" (get_embedding_model returns None),        *)
(* "encode_raises" or "ok".                                                *)
(***************************************************************************)
embed_text(text, model) ==
  IF text = <<>> \/ model # "ok" THEN "returns_none" ELSE "returns_vector"

(***************************************************************************)
(* /query handler, routes.py:59-249, up to the end of the retrieval.       *)
(***************************************************************************)
MinQueryChars == 5
RouteNumericLimit == 50
RouteNarrativeLimit == 5

\* routes.py:82
QueryRejected(payload) ==
  payload.query = <<>> \/ Len(StrStrip(payload.query)) < MinQueryChars

\* routes.py:88-92: the handler's own resolution, with its fallback
RouteQueryMode(payload, classifier_raises) ==
  LET resolved == ResolveMode(payload.query, payload.retrieval_mode, classifier_raises)
  IN IF resolved.raised THEN "hybrid" ELSE resolved.mode

(***************************************************************************)
(* Context assembler, retrieval.py:580-791.                                *)
(* A dict is a record, of which a key may be missing; a value that is not  *)
(* a dict is NotADict. A metric has the columns of a table row (ticker is  *)
(* None or a string, a NUMERIC column None or a number, here an integer).  *)
(* A chunk is [text, metadata, similarity_score] with the text as its      *)
(* length. The returned string is kept as its parts: the metric blocks,    *)
(* the narrative blocks, and whether the closing instruction blocks are    *)
(* there.                                                                  *)
(***************************************************************************)
MaxMetricBlocks == 15
MaxNarrativeBlocks == 5
MaxBlockChars == 800
MaxNarrativeChars == 5000
MaxSectionChars == 100
Billion == 1000000000
Million == 1000000

NotADict == [not_a_dict |-> TRUE]
IsDict(x) == "not_a_dict" \notin DOMAIN x

\* d.get(key, default)
DictGet(d, key, default) == IF key \in DOMAIN d THEN d[key] ELSE default

NotAvailable == <<"N","/","A">>
FullDocument == <<"F","u","l","l"," ","D","o","c","u","m","e","n","t">>

DecimalDigits == <<"0","1","2","3","4","5","6","7","8","9">>

\* str(n) of a natural number
RECURSIVE Digits(_)
Digits(n) ==
  IF n < 10 THEN <<DecimalDigits[n + 1]>>
  ELSE Digits(n \div 10) \o <<DecimalDigits[(n % 10) + 1]>>

\* s.replace(old, new) for a single character old; new is a string
StrReplaceChar(s, old, new) ==
  Concat([i \in 1..Len(s) |-> IF s[i] = old THEN new ELSE <<s[i]>>])

IsLetter(c) ==
  \E i \in 1..Len(UpperLetters) : UpperLetters[i] = c \/ LowerLetters[i] = c

\* str.title(): a letter that follows no letter in upper case, the others in lower
StrTitle(s) ==
  [i \in 1..Len(s) |->
     IF i = 1 \/ ~IsLetter(s[i - 1]) THEN UpperChar(s[i]) ELSE LowerChar(s[i])]

\* retrieval.py:650-657
metric_items ==
  << [label |-> "Revenue", key |-> "revenue", unit |-> "B"],
     [label |-> "Net Income", key |-> "net_income", unit |-> "B"],
     [label |-> "Profit Margin", key |-> "profit_margin_pct", unit |-> "%"],
     [label |-> "ROE", key |-> "roe_pct", unit |-> "%"],
     [label |-> "Revenue Growth", key |-> "revenue_growth_pct", unit |-> "%"],
     [label |-> "Total Assets", key |-> "assets", unit |-> "B"] >>

\* retrieval.py:664-670: the line shows amount / per to two decimals, then suffix
MetricLine(label, unit, value_float) ==
  IF unit = "%"
  THEN [label |-> label, amount |-> value_float, per |-> 1, suffix |-> "%"]
  ELSE IF value_float > Billion
  THEN [label |-> label, amount |-> value_float, per |-> Billion, suffix |-> "B"]
  ELSE [label |-> label, amount |-> value_float, per |-> Million, suffix |-> "M"]

\* retrieval.py:659-673: a line for each item whose value is not None
MetricLines(metric) ==
  LET present == SelectSeq(metric_items,
                           LAMBDA item : ~IsNone(DictGet(metric, item.key, None)))
  IN [i \in 1..Len(present) |->
        MetricLine(present[i].label, present[i].unit,
                   Val(DictGet(metric, present[i].key, None)))]

\* retrieval.py:632-644: the record is rendered
MetricRendered(metric) ==
  /\ IsDict(metric)
  /\ ~(~Truthy(DictGet(metric, "ticker", Some(Unknown)))
       \/ DictGet(metric, "company", Unknown) = <<>>)

\* retrieval.py:646-673
MetricBlock(metric) ==
  [company |-> DictGet(metric, "company", Unknown),
   ticker |-> Val(DictGet(metric, "ticker", Some(Unknown))),
   year |-> IF "year" \in DOMAIN metric THEN Digits(metric.year) ELSE NotAvailable,
   lines |-> MetricLines(metric)]

\* retrieval.py:626-676 without a cap
RenderMetricsUncapped(numeric_data) ==
  LET kept == SelectSeq(numeric_data, MetricRendered)
  IN [i \in 1..Len(kept) |-> MetricBlock(kept[i])]

\* retrieval.py:626-676
RenderMetrics(numeric_data) ==
  LET kept == SelectSeq(Take(numeric_data, MaxMetricBlocks), MetricRendered)
  IN [i \in 1..Len(kept) |-> MetricBlock(kept[i])]

\* retrieval.py:698-700: chunk.get('metadata', {}), {} when it is not a dict
ChunkMetadata(chunk) ==
  LET metadata == DictGet(chunk, "metadata", [none |-> TRUE])
  IN IF IsDict(metadata) THEN metadata ELSE [none |-> TRUE]

ChunkTicker(chunk) == DictGet(ChunkMetadata(chunk), "ticker", Unknown)
ChunkDocType(chunk) == DictGet(ChunkMetadata(chunk), "doc_type", <<"u","n","k","n","o","w","n">>)
ChunkSection(chunk) == DictGet(ChunkMetadata(chunk), "section_title", FullDocument)
ChunkYear(chunk) ==
  IF "year" \in DOMAIN ChunkMetadata(chunk) THEN Digits(ChunkMetadata(chunk).year)
  ELSE NotAvailable

\* retrieval.py:694-710: the chunk gets a source label
ChunkLabelled(chunk) ==
  /\ IsDict(chunk)
  /\ ~(ChunkTicker(chunk) = <<>> \/ ChunkTicker(chunk) = Unknown)

\* retrieval.py:712  f"{ticker} {doc_type.replace('_', ' ').title()} FY{year}"
SourceKey(chunk) ==
  ChunkTicker(chunk) \o <<" ">> \o StrTitle(StrReplaceChar(ChunkDocType(chunk), "_", <<" ">>))
    \o <<" ","F","Y">> \o ChunkYear(chunk)

\* retrieval.py:712: .replace of a doc_type that is not a string raises, outside
\* every try block of the function
GroupingRaises(chunks) ==
  \E i \in 1..Len(chunks) : ChunkLabelled(chunks[i]) /\ ~IsStr(ChunkDocType(chunks[i]))

\* retrieval.py:692-717: the labelled chunks in the order of by_source.items():
\* sources by first appearance, the chunks of a source in input order
GroupBySource(chunks) ==
  LET labelled == SelectSeq(chunks, ChunkLabelled)
      n == Len(labelled)
      keys == [i \in 1..n |-> SourceKey(labelled[i])] \o <<>>
      indices == [i \in 1..n |-> i]
      firsts == SelectSeq(indices, LAMBDA i : \A j \in 1..(i - 1) : keys[j] # keys[i])
      order == Concat([g \in 1..Len(firsts) |->
                         SelectSeq(indices, LAMBDA i : keys[i] = keys[firsts[g]])])
  IN [k \in 1..n |-> [source_label |-> keys[order[k]],
                       section_title |-> ChunkSection(labelled[order[k]]),
                       chunk |-> labelled[order[k]]]] \o <<>>

\* retrieval.py:726-727 with the label taken as it is
CitationLineRaw(source_label) ==
  <<"[","S","o","u","r","c","e",":"," ">> \o source_label \o <<"]">>

\* retrieval.py:726-727
CitationLine(source_label) ==
  <<"[","S","o","u","r","c","e",":"," ">>
    \o StrReplaceChar(StrReplaceChar(source_label, "<", <<>>), ">", <<>>)
    \o <<"]">>

\* retrieval.py:726-753 with the text left uncut
NarrativeBlockUncut(entry) ==
  LET text == DictGet(entry.chunk, "text", 0)
  IN [citation |-> CitationLine(entry.source_label),
      section |-> IF entry.section_title # <<>> /\ entry.section_title # entry.source_label
                  THEN Some(Take(entry.section_title, MaxSectionChars)) ELSE None,
      relevance |-> Max(0, Min(DictGet(entry.chunk, "similarity_score", 0), 100)),
      body |-> text,
      truncated |-> FALSE,
      chunk |-> entry.chunk]

\* retrieval.py:726-753: the parts of one rendered chunk; body is the length of
\* the text between the fences, truncated tells whether "...[truncated]" follows
NarrativeBlock(entry) ==
  LET text == DictGet(entry.chunk, "text", 0)
  IN [citation |-> CitationLine(entry.source_label),
      section |-> IF entry.section_title # <<>> /\ entry.section_title # entry.source_label
                  THEN Some(Take(entry.section_title, MaxSectionChars)) ELSE None,
      relevance |-> Max(0, Min(DictGet(entry.chunk, "similarity_score", 0), 100)),
      body |-> Min(text, MaxBlockChars),
      truncated |-> text > MaxBlockChars,
      chunk |-> entry.chunk]

\* retrieval.py:717-760: the loop from its i-th entry on, total being
\* total_narrative_length; an entry met with total above the cap is not rendered
RECURSIVE RenderEntries(_, _, _)
RenderEntries(entries, i, total) ==
  IF i > Len(entries) THEN [blocks |-> <<>>, total |-> total]
  ELSE IF total > MaxNarrativeChars THEN RenderEntries(entries, i + 1, total)
  ELSE LET block == NarrativeBlock(entries[i])
           rest == RenderEntries(entries, i + 1, total + block.body)
       IN [blocks |-> <<block>> \o rest.blocks, total |-> rest.total]

\* retrieval.py:679-760 without the cap of five chunks
RenderNarrativeUncapped(narrative_chunks) ==
  RenderEntries(GroupBySource(narrative_chunks), 1, 0)

\* retrieval.py:679-760
RenderNarrative(narrative_chunks) ==
  RenderEntries(GroupBySource(Take(narrative_chunks, MaxNarrativeBlocks)), 1, 0)

\* the value of a call: raised, or the parts of the returned string
assemble_context(query, numeric_data, narrative_chunks, include_contradiction_check) ==
  IF GroupingRaises(Take(narrative_chunks, MaxNarrativeBlocks))
  THEN [raised |-> TRUE, query |-> query, metric_blocks |-> <<>>,
        narrative_blocks |-> <<>>, total_narrative_length |-> 0,
        instructions |-> FALSE, contradiction_check |-> FALSE]
  ELSE LET narrative == RenderNarrative(narrative_chunks)
       IN [raised |-> FALSE, query |-> query,
           metric_blocks |-> RenderMetrics(numeric_data),
           narrative_blocks |-> narrative.blocks,
           total_narrative_length |-> narrative.total,
           instructions |-> TRUE,
           contradiction_check |-> include_contradiction_check]

(***************************************************************************)
(* Contradiction detector, retrieval.py:825-924.                           *)
(* The two summaries are represented by their lengths. llm is what the     *)
(* call of llm_call_fn does: it raises, or it returns result, which is     *)
(* None, a str, or a dict of size keys with output under the key 'output'  *)
(* (None when the key is missing, NotAString for a value that is no str).  *)
(* The value of a call is [raised, invoked, prompt, verdict].              *)
(***************************************************************************)
MaxSummaryChars == 2000
MaxVerdictChars == 500

TagContradiction == <<"[","C","O","N","T","R","A","D","I","C","T","I","O","N","]">>
TagAligned == <<"[","A","L","I","G","N","E","D","]">>
TagUnclear == <<"[","U","N","C","L","E","A","R","]">>

\* retrieval.py:911
valid_classifications == <<TagContradiction, TagAligned, TagUnclear>>

\* retrieval.py:916
FormatError ==
  TagUnclear \o <<":"," ","O","u","t","p","u","t"," ","f","o","r","m","a","t"," ",
                  "e","r","r","o","r">>

\* not result, retrieval.py:895
ResultFalsy(result) ==
  \/ result.type = "None"
  \/ result.type = "str" /\ result.text = <<>>
  \/ result.type = "dict" /\ result.size = 0

\* retrieval.py:900-906
ResultOutput(result) ==
  IF result.type = "dict"
  THEN IF IsNone(result.output) \/ result.output = Some(NotAString) THEN <<>>
       ELSE Val(result.output)
  ELSE result.text

\* retrieval.py:912
has_valid_classification(output) ==
  \E i \in 1..Len(valid_classifications) : StrContains(valid_classifications[i], output)

\* retrieval.py:861-885: the two summaries as the prompt holds them
DetectorPrompt(numeric_summary, narrative_summary) ==
  [metrics |-> Min(numeric_summary, MaxSummaryChars),
   narrative |-> Min(narrative_summary, MaxSummaryChars)]

\* retrieval.py:887-924 with the exception of llm_call_fn let through
detect_contradictions_Propagating(numeric_summary, narrative_summary, llm) ==
  IF numeric_summary = 0 /\ narrative_summary = 0
  THEN [raised |-> FALSE, invoked |-> FALSE, prompt |-> None, verdict |-> None]
  ELSE LET prompt == Some(DetectorPrompt(numeric_summary, narrative_summary))
       IN [raised |-> llm.raises, invoked |-> TRUE, prompt |-> prompt, verdict |-> None]

\* retrieval.py:908 without the cap
CapVerdictNot(output) == StrStrip(output)

\* retrieval.py:908  output.strip()[:500]
CapVerdict(output) == Take(StrStrip(output), MaxVerdictChars)

detect_contradictions(numeric_summary, narrative_summary, llm) ==
  IF numeric_summary = 0 /\ narrative_summary = 0
  THEN [raised |-> FALSE, invoked |-> FALSE, prompt |-> None, verdict |-> None]
  ELSE LET prompt == Some(DetectorPrompt(numeric_summary, narrative_summary))
           Answer(verdict) ==
             [raised |-> FALSE, invoked |-> TRUE, prompt |-> prompt, verdict |-> verdict]
       IN IF llm.raises THEN Answer(None)
          ELSE IF ResultFalsy(llm.result) THEN Answer(None)
          ELSE LET output == CapVerdict(ResultOutput(llm.result))
               IN IF ~has_valid_classification(output) THEN Answer(Some(FormatError))
                  ELSE Answer(Some(output))

(***************************************************************************)
(* /query handler, routes.py:105-238, after the retrieval.                 *)
(***************************************************************************)
MaxSummaryMetrics == 5
MaxSummaryChunks == 3
MaxSummaryChunkChars == 300
MaxResponseChars == 500

\* the short texts of the vector payloads as characters, as the string operations
\* of the assembler take them
StrChars(s) ==
  CASE s = "earnings_transcript" ->
         <<"e","a","r","n","i","n","g","s","_","t","r","a","n","s","c","r","i","p","t">>
    [] s = "risk_factors" -> <<"r","i","s","k","_","f","a","c","t","o","r","s">>
    [] s = "unknown" -> <<"u","n","k","n","o","w","n">>
    [] s = "Q4" -> <<"Q","4">>
    [] s = "Q3" -> <<"Q","3">>
    [] OTHER -> <<>>

\* routes.py:116-129: a chunk whose fields fail the validation of SourceReference
\* is left out
BuildSources(narrative_chunks) ==
  LET valid == SelectSeq(narrative_chunks, LAMBDA c : IsStr(c.ticker))
  IN [i \in 1..Len(valid) |->
        [doc_type |-> valid[i].doc_type, ticker |-> valid[i].ticker,
         year |-> valid[i].year, section |-> valid[i].section_title,
         similarity_score |-> valid[i].score]]

\* routes.py:137-146
AssemblerChunk(c) ==
  [text |-> c.text,
   metadata |-> [ticker |-> c.ticker, year |-> c.year, doc_type |-> StrChars(c.doc_type),
                 section_title |-> StrChars(c.section_title)],
   similarity_score |-> c.score]

\* routes.py:132-155: the assembled context, or the fallback text when the
\* assembler raises
AssembledContext(query, numeric_data, narrative_chunks) ==
  LET ret == assemble_context(query, numeric_data,
                              [i \in 1..Len(narrative_chunks) |->
                                 AssemblerChunk(narrative_chunks[i])], TRUE)
  IN [fallback |-> ret.raised,
      metric_blocks |-> Len(ret.metric_blocks),
      narrative_blocks |-> Len(ret.narrative_blocks),
      instructions |-> ret.instructions]

\* routes.py:161-163
ModelUsed(payload) ==
  IF payload.mode = Some("deep") THEN "llama-3.3-70b-versatile" ELSE "llama-3.1-8b-instant"

\* routes.py:166-187. kind: "output" (the text the model returned), "unable"
\* ('Unable to generate analysis'), "unavailable" ('Analysis unavailable ...')
\* or "failed" ('Unable to process query ...')
Analysis(llm, numeric_data, narrative_chunks) ==
  LET Unable == [kind |-> "unable", text |-> <<>>, tokens_used |-> None]
  IN IF llm.raises
     THEN [kind |-> IF numeric_data # <<>> \/ narrative_chunks # <<>>
                    THEN "unavailable" ELSE "failed",
           text |-> <<>>, tokens_used |-> None]
     ELSE IF llm.result.type = "dict"
     THEN IF IsNone(llm.result.output) \/ llm.result.output = Some(NotAString)
             \/ llm.result.output = Some(<<>>)
          THEN [Unable EXCEPT !.tokens_used = llm.result.tokens_used]
          ELSE [kind |-> "output", text |-> Val(llm.result.output),
                tokens_used |-> llm.result.tokens_used]
     ELSE IF llm.result.type = "str" /\ llm.result.text # <<>>
     THEN [kind |-> "output", text |-> llm.result.text, tokens_used |-> None]
     ELSE Unable

\* routes.py:191, the numeric test left out
ContradictionCheckDueAnyNumeric(retrieval_summary, numeric_data, narrative_chunks) ==
  /\ retrieval_summary.query_mode \in {"hybrid", "narrative"}
  /\ narrative_chunks # <<>>

\* routes.py:191
ContradictionCheckDue(retrieval_summary, numeric_data, narrative_chunks) ==
  /\ retrieval_summary.query_mode \in {"hybrid", "narrative"}
  /\ numeric_data # <<>>
  /\ narrative_chunks # <<>>

\* routes.py:194: m.get('revenue', 0)/1e9 raises TypeError for None and for a
\* decimal.Decimal. numeric_type is the type in which the database driver
\* delivers a NUMERIC value that is not NULL: "Decimal" (psycopg2 as
\* schema.py:222-240 uses it) or "float" (as StructuredMetrics declares it,
\* retrieval.py:17-30)
SummaryRaises(numeric_data, numeric_type) ==
  \E i \in 1..Min(Len(numeric_data), MaxSummaryMetrics) :
    \E value \in {numeric_data[i].revenue, numeric_data[i].net_income} :
      IsNone(value) \/ numeric_type = "Decimal"

\* len(f"{value/1e9:.1f}")
AmountChars(value) ==
  LET tenths == ((IF value < 0 THEN -value ELSE value) + 50000000) \div 100000000
  IN Len(Digits(tenths \div 10)) + 2 + (IF value < 0 THEN 1 ELSE 0)

RECURSIVE JoinedChars(_)
\* len("\n".join(lines)) from the lengths of the lines
JoinedChars(lens) ==
  IF lens = <<>> THEN 0
  ELSE IF Len(lens) = 1 THEN lens[1]
  ELSE lens[1] + 1 + JoinedChars(Tail(lens))

\* routes.py:193-196, the length of the text
NumericSummary(numeric_data) ==
  LET shown == Take(numeric_data, MaxSummaryMetrics)
  IN JoinedChars([i \in 1..Len(shown) |->
                    Len(Val(shown[i].ticker)) + 13 + AmountChars(Val(shown[i].revenue))
                      + 8 + AmountChars(Val(shown[i].net_income)) + 1])

\* routes.py:197-199, the length of the text
NarrativeSummary(narrative_chunks) ==
  LET shown == Take(narrative_chunks, MaxSummaryChunks)
  IN JoinedChars([i \in 1..Len(shown) |-> Min(shown[i].text, MaxSummaryChunkChars)])

\* routes.py:210-211 with every verdict kept
KeepContradictionAll(contradictions) == contradictions

\* routes.py:210-211
KeepContradiction(contradictions) ==
  IF Truthy(contradictions) /\ ~StrContains(TagContradiction, Val(contradictions))
  THEN None ELSE contradictions

\* routes.py:192-215: what the guarded block leaves in contradictions, whether
\* it called the detector and what the detector returned
ContradictionCheck(numeric_data, narrative_chunks, numeric_type, llm) ==
  IF SummaryRaises(numeric_data, numeric_type)
  THEN [summary_raised |-> TRUE, detector |-> None, contradictions |-> None]
  ELSE LET ret == detect_contradictions(NumericSummary(numeric_data),
                                        NarrativeSummary(narrative_chunks), llm)
       IN [summary_raised |-> FALSE, detector |-> Some(ret),
           contradictions |-> IF ret.raised THEN None
                              ELSE KeepContradiction(ret.verdict)]

\* routes.py:224-235
QueryResponse(payload, analysis, retrieval_summary, sources, latency_ms, contradictions) ==
  [query |-> Take(payload.query, MaxResponseChars),
   analysis |-> analysis.kind,
   analysis_text |-> analysis.text,
   retrieval_mode |-> retrieval_summary.query_mode,
   model_used |-> ModelUsed(payload),
   numeric_data_count |-> Max(0, retrieval_summary.numeric_retrieved),
   narrative_chunks_count |-> Max(0, retrieval_summary.narrative_retrieved),
   sources |-> sources,
   latency_ms |-> latency_ms,
   tokens_used |-> analysis.tokens_used,
   contradictions_detected |->
     IF Truthy(contradictions) THEN Some(Take(Val(contradictions), MaxResponseChars))
     ELSE None]

(***************************************************************************)
(* Agent graph, graph.py:21-145. A GraphState is a record whose fields      *)
(* retrieval_context, raw_analysis, formatted_response and error are None   *)
(* while the key is absent. An exception is the text str(exc) gives for it. *)
(***************************************************************************)
\* graph.py:140-143: the node after each node
GraphEdges ==
  [retrieve |-> "reason", reason |-> "format", format |-> "END"]

\* str(exc) of the TypeError that len(None) raises at graph.py:85
LenTypeError ==
  <<"o","b","j","e","c","t"," ","o","f"," ","t","y","p","e"," ","'","N","o","n","e",
    "T","y","p","e","'"," ","h","a","s"," ","n","o"," ","l","e","n","(",")">>

\* graph.py:32-57. ret is what perform_hybrid_retrieval does, text is str(exc)
\* when it raises
retrieve_node(state, ret, text) ==
  IF ret.raised THEN [state EXCEPT !.error = Some(text)]
  ELSE [state EXCEPT !.retrieval_context = ret.context]

\* graph.py:60-91. llm is what the model call does: it raises an exception of
\* text llm.text, or returns a dict with llm.output under 'output'
reasoning_node(state, llm) ==
  IF Truthy(state.error) THEN state
  ELSE IF llm.raises THEN [state EXCEPT !.error = Some(llm.text)]
  ELSE IF ~IsStr(llm.output)
  THEN [state EXCEPT !.raw_analysis = Some(llm.output), !.error = Some(LenTypeError)]
  ELSE [state EXCEPT !.raw_analysis = Some(llm.output)]

\* graph.py:94-123
format_node(state) ==
  IF Truthy(state.error) THEN state
  ELSE LET summary == IF IsNone(state.retrieval_context) THEN [none |-> TRUE]
                      ELSE Val(state.retrieval_context).retrieval_summary
       IN [state EXCEPT !.formatted_response =
             Some([analysis |-> IF IsNone(state.raw_analysis) THEN <<>>
                                ELSE Val(state.raw_analysis),
                   retrieval_mode |-> DictGet(summary, "query_mode", "unknown"),
                   numeric_records |-> DictGet(summary, "numeric_retrieved", 0),
                   narrative_chunks |-> DictGet(summary, "narrative_retrieved", 0),
                   retrieval_latency_ms |-> DictGet(summary, "latency_ms", 0)])]

(***************************************************************************)
(* Arguments and faults the calls are tried with.                          *)
(***************************************************************************)
RECURSIVE ListsUpTo(_, _)
ListsUpTo(S, n) ==
  IF n = 0 THEN {<<>>}
  ELSE LET shorter == ListsUpTo(S, n - 1)
       IN shorter \cup {Append(l, x) : l \in shorter, x \in S}

RawTickers == { <<"a","a">>, <<" ","B"," ">>, <<" ">> }
TickerArgs == {None} \cup {Some(l) : l \in ListsUpTo(RawTickers, MaxTickers)}

CompanyArgs ==
  { None, Some(<<>>), Some(<< <<>> >>), Some(<< <<" ","A","c">> >>),
    Some(<< CompBo, <<"A","c"," ">> >>), Some(<< <<" ">>, CompBo >>) }

YearArgs == { None, Some(<<1999, 2024>>), Some(<<1999>>) }
LimitArgs == { -3, 0, 1, 500 }
FailurePatterns == [1..MaxTickers -> BOOLEAN]

\* the points the vector backend may return
PointUniverse ==
  { [id |-> 11, score |-> 90,
     payload |-> Some([company |-> "Acme Corp", ticker |-> TickAA, year |-> 2024,
                       doc_type |-> "earnings_transcript", section_title |-> "Q4",
                       chunk_id |-> 0, summary |-> 900])],
    [id |-> 12, score |-> 120,
     payload |-> Some([company |-> "Bolt Inc", ticker |-> <<"b">>, year |-> 2025,
                       doc_type |-> "risk_factors", section_title |-> "",
                       chunk_id |-> 3, summary |-> 300])],
    [id |-> 13, score |-> -10, payload |-> None],
    [id |-> 14, score |-> 70,
     payload |-> Some([company |-> "Acme Corp", ticker |-> NotAString, year |-> 2024,
                       doc_type |-> "earnings_transcript", section_title |-> "Q3",
                       chunk_id |-> 1, summary |-> NotText])] }

RECURSIVE DistinctLists(_, _)
DistinctLists(S, n) ==
  IF n = 0 THEN {<<>>}
  ELSE LET shorter == DistinctLists(S, n - 1)
       IN shorter \cup
          UNION {{Append(l, x) : x \in S \ {l[i] : i \in 1..Len(l)}} : l \in shorter}

QdrantOutcomes ==
  {[status |-> st, points |-> <<>>] :
     st \in {"unconfigured", "no_collection", "search_error"}}
  \cup {[status |-> "ok", points |-> ps] : ps \in DistinctLists(PointUniverse, MaxHits)}

\* the embedding function handed to the orchestrator: none, or a stub
EmbeddingFns ==
  {None, Some("returns_none"), Some("returns_empty"), Some("raises"),
   Some("returns_vector")}

\* <<query, force_mode>>: the query decides the mode only when no mode is forced
HybridModeInputs ==
  { <<TestQuery1, None>>, <<TestQuery2, None>>, <<TestQuery3, None>>,
    <<TestQuery3, Some("")>>, <<TestQuery1, Some("numeric")>>,
    <<TestQuery1, Some("narrative")>>, <<TestQuery1, Some("hybrid")>>,
    <<TestQuery1, Some("quick")>> }
HybridTickerArgs ==
  { None, Some(<< <<"a","a">> >>), Some(<< <<" ","B"," ">>, <<"a","a">> >>),
    Some(<< <<" ">> >>) }
\* <<numeric_limit, narrative_limit>>
HybridLimits == { <<20, 50>>, <<500, 0>> }
ElapsedMs == {0, 12}

NoQdrant == [status |-> "unconfigured", points |-> <<>>]
NoFailure == [i \in 1..MaxTickers |-> FALSE]

\* the outcomes of the collaborators of one call: whether the classifier, when it
\* is called, raises; whether the structured retriever raises, and which of its
\* backend queries fail; what the vector backend does. An outcome of a
\* collaborator that the call does not reach is not varied.
StructuredOutcomes ==
  {[structured_raises |-> TRUE, fails |-> NoFailure]}
  \cup {[structured_raises |-> FALSE, fails |-> f] : f \in FailurePatterns}

HybridEnvs(query, embeddings_model_fn, force_mode) ==
  LET mode == ResolveMode(query, force_mode, FALSE).mode
      structured == IF mode \in {"numeric", "hybrid"} THEN StructuredOutcomes
                    ELSE {[structured_raises |-> FALSE, fails |-> NoFailure]}
      vector == IF mode \in {"narrative", "hybrid"}
                   /\ embeddings_model_fn = Some("returns_vector")
                THEN QdrantOutcomes ELSE {NoQdrant}
      Env(c, s, q, e) ==
        [classifier_raises |-> c, structured_raises |-> s.structured_raises,
         fails |-> s.fails, qdrant |-> q, elapsed_ms |-> e]
  IN {Env(FALSE, s, q, e) : s \in structured, q \in vector, e \in ElapsedMs}
     \cup (IF ModeTruthy(force_mode) THEN {}
           ELSE {Env(TRUE, [structured_raises |-> FALSE, fails |-> NoFailure],
                     NoQdrant, 0)})

ShortQuery == <<" ","h","i"," "," "," ">>
PayloadQueries == RequestQueries \cup {ShortQuery}
PayloadModes == {None, Some("deep")}
PayloadTickers == { None, Some(<< <<"a","a">> >>), Some(<< <<" ","B"," ">>, <<"a","a">> >>) }
PayloadRetrievalModes ==
  {None, Some(""), Some("numeric"), Some("narrative"), Some("hybrid"), Some("quick")}
EmbeddingModels == {"unavailable", "encode_raises", "ok"}

\* arguments of a direct search: <<top_k, score_threshold>> in hundredths
SearchTickerArgs == { None, Some(<< <<"a","a">> >>), Some(<< <<" ">> >>) }
SearchYearArgs == { None, Some(<<2024>>) }
SearchDocTypeArgs == { None, Some(<<"risk_factors">>) }
SearchLimits == { <<-1, 150>>, <<1, 40>>, <<50, -5>> }

\* arguments of assemble_context: a list of n metrics, those at the positions bad
\* replaced by a record that is not rendered
GoodMetric(i) ==
  [id |-> i, company |-> CompAc, ticker |-> Some(TickAA), year |-> 2000 + i,
   revenue |-> <<Some(999999999), Some(1000000000), Some(1000000001),
                 Some(-5), None>>[(i % 5) + 1],
   net_income |-> Some(2000000000),
   profit_margin_pct |-> Some(25),
   roe_pct |-> Some(2000000000),
   revenue_growth_pct |-> Some(-3),
   assets |-> Some(5000000)]

BadMetricKinds ==
  { NotADict, [GoodMetric(0) EXCEPT !.ticker = None],
    [GoodMetric(0) EXCEPT !.company = <<>>] }

MetricList(n, bad, kind) == [i \in 1..n |-> IF i \in bad THEN kind ELSE GoodMetric(i)]

MetricInputs ==
  {MetricList(n, bad \cap 1..n, kind) :
     n \in {0, 1, MaxMetricBlocks, MaxMetrics},
     bad \in SUBSET {1, MaxMetricBlocks, MaxMetricBlocks + 1},
     kind \in BadMetricKinds}

\* the i-th chunk of a list: tickers alternate, so that sources interleave
GoodChunk(i, long) ==
  [text |-> IF long THEN 900 ELSE 300 + i,
   metadata |-> [ticker |-> IF i % 2 = 1 THEN TickAA ELSE <<"<","B",">">>,
                 year |-> 2024,
                 doc_type |-> <<"e","a","r","n","i","n","g","s","_",
                               "t","r","a","n","s","c","r","i","p","t">>,
                 section_title |-> IF i = 1 THEN <<"Q","4">> ELSE <<>>],
   similarity_score |-> IF i = 1 THEN 120 ELSE 90 - i]

BadChunkKinds ==
  { NotADict,
    [GoodChunk(0, FALSE) EXCEPT !.metadata.ticker = Unknown],
    [GoodChunk(0, FALSE) EXCEPT !.metadata.ticker = <<>>],
    [GoodChunk(0, FALSE) EXCEPT !.metadata = NotADict],
    [GoodChunk(0, FALSE) EXCEPT !.metadata.doc_type = NotAString] }

ChunkList(n, bad, kind, long) ==
  [i \in 1..n |-> IF i \in bad THEN kind ELSE GoodChunk(i, long)]

ChunkInputs ==
  {ChunkList(n, bad \cap 1..n, kind, long) :
     n \in {0, 1, 3, MaxNarrativeBlocks, MaxChunks},
     bad \in SUBSET {1, MaxNarrativeBlocks, MaxNarrativeBlocks + 1},
     kind \in BadChunkKinds, long \in BOOLEAN}

\* what the inference function is tried with: texts with and without a tag,
\* with blanks around, with lower-case tags and with a tag across the cap
Filler(n) == [i \in 1..n |-> "x"]

LlmTexts ==
  { <<>>,
    <<" "," ">>,
    <<"n","o"," ","t","a","g">>,
    <<"[","a","l","i","g","n","e","d","]">>,
    TagContradiction \o <<" ","g","r","o","w","t","h"," ","f","e","l","l">>,
    <<" "," ">> \o TagAligned \o <<" ">>,
    TagUnclear,
    TagAligned \o <<" ","n","o"," ">> \o TagContradiction,
    TagAligned \o Filler(MaxVerdictChars),
    Filler(MaxVerdictChars - 4) \o TagContradiction,
    Filler(MaxVerdictChars + 1) \o TagUnclear }

LlmResults ==
  {[type |-> "None"], [type |-> "dict", size |-> 0, output |-> None],
   [type |-> "dict", size |-> 4, output |-> None],
   [type |-> "dict", size |-> 5, output |-> Some(NotAString)]}
  \cup {[type |-> "str", text |-> t] : t \in LlmTexts}
  \cup {[type |-> "dict", size |-> 5, output |-> Some(t)] : t \in LlmTexts}

LlmRaises == [raises |-> TRUE, result |-> [type |-> "None"]]
LlmOutcomes == {LlmRaises} \cup {[raises |-> FALSE, result |-> r] : r \in LlmResults}

SummaryLens == {0, 40, MaxSummaryChars + 1}

\* what a request is served from: two tables, one of them with a NULL revenue
Row(id) == CHOOSE r \in RowUniverse : r.id = id
Point(id) == CHOOSE p \in PointUniverse : p.id = id
RequestTables == { {Row(1), Row(5)}, {Row(1), Row(4)} }

\* the outcomes of the collaborators of the retrieval of a request
RequestEnvs(query, embeddings_model_fn, force_mode) ==
  LET mode == ResolveMode(query, force_mode, FALSE).mode
      structured == IF mode \in {"numeric", "hybrid"} THEN BOOLEAN ELSE {FALSE}
      vector == IF mode \in {"narrative", "hybrid"}
                   /\ embeddings_model_fn = Some("returns_vector")
                THEN {NoQdrant, [status |-> "ok", points |-> <<Point(11)>>],
                      [status |-> "ok", points |-> <<Point(12), Point(11)>>]}
                ELSE {NoQdrant}
      Env(c, s, q) ==
        [classifier_raises |-> c, structured_raises |-> s, fails |-> NoFailure,
         qdrant |-> q, elapsed_ms |-> 12]
  IN {Env(FALSE, s, q) : s \in structured, q \in vector}
     \cup (IF ModeTruthy(force_mode) THEN {} ELSE {Env(TRUE, FALSE, NoQdrant)})

\* the model call of the analysis: it raises, or returns the dict of llm.py:59-65
\* (content None for a response without text)
AnalysisOutcomes ==
  { LlmRaises,
    [raises |-> FALSE,
     result |-> [type |-> "dict", size |-> 5, tokens_used |-> Some(120),
                 output |-> Some(<<"B","u","l","l",":"," ","A","A">>)]],
    [raises |-> FALSE,
     result |-> [type |-> "dict", size |-> 5, tokens_used |-> Some(0),
                 output |-> Some(NotAString)]] }

\* the model call of the contradiction check
CheckOutcomes ==
  {LlmRaises}
  \cup {[raises |-> FALSE, result |-> [type |-> "dict", size |-> 5, output |-> Some(t)]] :
          t \in { <<>>,
                  TagContradiction \o <<" ","g","r","o","w","t","h"," ","f","e","l","l">>,
                  <<" "," ">> \o TagAligned \o <<" ">>,
                  TagUnclear,
                  TagAligned \o <<" ","n","o"," ">> \o TagContradiction }}

NumericTypes == {"Decimal", "float"}

\* str(exc) of the exceptions a node catches: '' for an exception raised without
\* arguments (TimeoutError(), MemoryError()), or a message
ExceptionTexts == { <<>>, <<"t","i","m","e","d"," ","o","u","t">> }

\* the model call of the reasoning node: it raises, or returns the dict of
\* llm.py:59-65 with a text, the empty text or None as output
GraphModelOutcomes ==
  {[raises |-> TRUE, text |-> text, output |-> <<>>] : text \in ExceptionTexts}
  \cup {[raises |-> FALSE, text |-> <<>>, output |-> output] :
          output \in { <<"B","u","l","l",":"," ","A","A">>, <<>>, NotAString }}

GraphModes == {"quick", "deep"}

\* perform_hybrid_retrieval as routes.py:96-103 calls it, for every payload that
\* passes the validation, every table and every outcome of the collaborators:
\* its value, computed once
RetrievalRuns ==
  UNION { UNION { { [query |-> query, tickers |-> tickers,
                     retrieval_mode |-> retrieval_mode, rows |-> rows,
                     ret |-> perform_hybrid_retrieval(query,
                               Some(embed_text(query, model)), tickers, retrieval_mode,
                               RouteNumericLimit, RouteNarrativeLimit, rows, env)] :
                    tickers \in PayloadTickers, rows \in RequestTables,
                    env \in RequestEnvs(query, Some(embed_text(query, model)),
                                        retrieval_mode) } :
                  model \in EmbeddingModels, retrieval_mode \in PayloadRetrievalModes } :
          query \in RequestQueries }

\* routes.py:105-155 on every context a retrieval returns: the sources and the
\* assembled context, computed once
AssemblyRuns ==
  { [query |-> run.query, context |-> Val(run.ret.context),
     sources |-> BuildSources(Val(run.ret.context).narrative_chunks),
     assembled |-> AssembledContext(run.query, Val(run.ret.context).numeric_data,
                                    Val(run.ret.context).narrative_chunks)] :
    run \in {r \in RetrievalRuns : ~r.ret.raised} }

\* routes.py:192-215 on every context, for every type of the numeric values and
\* every outcome of the model call, computed once
CheckRuns ==
  { [context |-> x[1],
     check |-> [numeric_type |-> x[2], llm |-> x[3]]
                 @@ ContradictionCheck(x[1].numeric_data, x[1].narrative_chunks,
                                       x[2], x[3])] :
    x \in { a.context : a \in AssemblyRuns } \X NumericTypes \X CheckOutcomes }

(***************************************************************************)
(* State.                                                                  *)
(***************************************************************************)
NoCall == [op |-> "none"]
NoRequest == [pc |-> "IDLE"]

Init ==
  /\ db \in Tables
  /\ call = NoCall
  /\ req = NoRequest

\* a completed direct call returns to its caller
Return ==
  /\ call # NoCall
  /\ call' = NoCall
  /\ UNCHANGED <<db, req>>

\* classify_query_mode(query) called on its own
ClassifyQueryMode ==
  /\ call = NoCall
  /\ req = NoRequest
  /\ \E query \in ClassifierQueries :
       call' = [op |-> "classify_query_mode", query |-> query,
                mode |-> classify_query_mode(query)]
  /\ UNCHANGED <<db, req>>

\* retrieve_structured_metrics(...) called on its own
RetrieveStructuredMetrics ==
  /\ call = NoCall
  /\ req = NoRequest
  /\ \E tickers \in TickerArgs, companies \in CompanyArgs, years \in YearArgs,
        limit \in LimitArgs, fails \in FailurePatterns :
       call' = [op |-> "retrieve_structured_metrics",
                tickers |-> tickers, companies |-> companies, years |-> years,
                limit |-> limit, fails |-> fails,
                ret |-> retrieve_structured_metrics(tickers, companies, years,
                                                    limit, db, fails)]
  /\ UNCHANGED <<db, req>>

NextStructured == RetrieveStructuredMetrics \/ Return

SpecStructured == Init /\ [][NextStructured]_vars

\* perform_hybrid_retrieval(...) called on its own, as test_phase2.py:71-78 does
PerformHybridRetrieval ==
  /\ call = NoCall
  /\ req = NoRequest
  /\ \E mi \in HybridModeInputs, fn \in EmbeddingFns, tickers \in HybridTickerArgs,
        limits \in HybridLimits :
       \E env \in HybridEnvs(mi[1], fn, mi[2]) :
         call' = [op |-> "perform_hybrid_retrieval",
                  query |-> mi[1], embeddings_model_fn |-> fn, tickers |-> tickers,
                  force_mode |-> mi[2], numeric_limit |-> limits[1],
                  narrative_limit |-> limits[2], env |-> env,
                  ret |-> perform_hybrid_retrieval(mi[1], fn, tickers, mi[2],
                                                   limits[1], limits[2], db, env)]
  /\ UNCHANGED <<db, req>>

NextHybrid == PerformHybridRetrieval \/ Return

\* search_narrative(...) called on its own
SearchNarrative ==
  /\ call = NoCall
  /\ req = NoRequest
  /\ \E tickers \in SearchTickerArgs, years \in SearchYearArgs,
        doc_types \in SearchDocTypeArgs, limits \in SearchLimits,
        qdrant \in QdrantOutcomes :
       call' = [op |-> "search_narrative", tickers |-> tickers, years |-> years,
                doc_types |-> doc_types, top_k |-> limits[1],
                score_threshold |-> limits[2], qdrant |-> qdrant,
                ret |-> search_narrative(<<1>>, tickers, years, doc_types,
                                         limits[1], limits[2], qdrant)]
  /\ UNCHANGED <<db, req>>

\* assemble_context(...) called on its own
AssembleContext ==
  /\ call = NoCall
  /\ req = NoRequest
  /\ \E numeric_data \in MetricInputs, narrative_chunks \in ChunkInputs,
        include_contradiction_check \in BOOLEAN :
       call' = [op |-> "assemble_context", query |-> TestQuery3,
                numeric_data |-> numeric_data, narrative_chunks |-> narrative_chunks,
                include_contradiction_check |-> include_contradiction_check,
                ret |-> assemble_context(TestQuery3, numeric_data, narrative_chunks,
                                         include_contradiction_check)]
  /\ UNCHANGED <<db, req>>

NextAssemble == AssembleContext \/ Return


\* the assembler reads no table: it is run over the empty one
InitAssemble ==
  /\ db = {}
  /\ call = NoCall
  /\ req = NoRequest

SpecAssemble == InitAssemble /\ [][NextAssemble]_vars

\* detect_contradictions(...) called on its own
DetectContradictions ==
  /\ call = NoCall
  /\ req = NoRequest
  /\ \E numeric_summary \in SummaryLens, narrative_summary \in SummaryLens,
        llm \in LlmOutcomes :
       call' = [op |-> "detect_contradictions", numeric_summary |-> numeric_summary,
                narrative_summary |-> narrative_summary, llm |-> llm,
                ret |-> detect_contradictions(numeric_summary, narrative_summary, llm)]
  /\ UNCHANGED <<db, req>>

NextDetector == DetectContradictions \/ Return

\* the detector reads no table either
SpecDetector == InitAssemble /\ [][NextDetector]_vars

NextRetrievers == RetrieveStructuredMetrics \/ SearchNarrative \/ Return

SpecRetrievers == Init /\ [][NextRetrievers]_vars

SpecHybrid == Init /\ [][NextHybrid]_vars

\* the orchestrator over the table of many fiscal years
InitBulk ==
  /\ db = BulkTable
  /\ call = NoCall
  /\ req = NoRequest

SpecBulk == InitBulk /\ [][NextHybrid]_vars

\* POST /query arrives, routes.py:59-60
ReceiveQuery ==
  /\ call = NoCall
  /\ req = NoRequest
  /\ \E query \in PayloadQueries, mode \in PayloadModes, tickers \in PayloadTickers,
        retrieval_mode \in PayloadRetrievalModes :
       req' = [pc |-> "START",
               payload |-> [query |-> query, mode |-> mode, tickers |-> tickers,
                            retrieval_mode |-> retrieval_mode],
               classifier_failed |-> FALSE, query_mode |-> "", status |-> 0,
               retrieval |-> None, sources |-> <<>>, assembled |-> None,
               analysis |-> None, detector_calls |-> 0, check |-> None,
               response |-> None]
  /\ UNCHANGED <<db, call>>

\* routes.py:81-93: the query is validated and the handler resolves the mode
ResolveQueryMode ==
  /\ req.pc = "START"
  /\ IF QueryRejected(req.payload)
     THEN req' = [req EXCEPT !.pc = "DONE", !.status = 400]
     ELSE \E classifier_raises \in
               (IF ModeTruthy(req.payload.retrieval_mode) THEN {FALSE} ELSE BOOLEAN) :
            req' = [req EXCEPT !.pc = "MODE_RESOLVED",
                               !.classifier_failed = classifier_raises,
                               !.query_mode = RouteQueryMode(req.payload,
                                                             classifier_raises)]
  /\ UNCHANGED <<db, call>>

\* routes.py:96-108 and, when the retrieval raises, routes.py:243-249
RetrieveForQuery ==
  /\ req.pc = "MODE_RESOLVED"
  /\ \E model \in EmbeddingModels :
       \E env \in HybridEnvs(req.payload.query,
                              Some(embed_text(req.payload.query, model)),
                              req.payload.retrieval_mode) :
         LET ret == perform_hybrid_retrieval(req.payload.query,
                      Some(embed_text(req.payload.query, model)),
                      req.payload.tickers, req.payload.retrieval_mode,
                      RouteNumericLimit, RouteNarrativeLimit, db, env)
         IN req' = IF ret.raised
                   THEN [req EXCEPT !.pc = "DONE", !.status = 500,
                                    !.retrieval = Some(ret)]
                   ELSE [req EXCEPT !.pc = "RETRIEVED", !.retrieval = Some(ret)]
  /\ UNCHANGED <<db, call>>

NextQuery == ReceiveQuery \/ ResolveQueryMode \/ RetrieveForQuery

\* routes.py:96-103 with the backends of RequestEnvs
RetrieveForRequest ==
  /\ req.pc = "MODE_RESOLVED"
  /\ \E run \in RetrievalRuns :
       /\ run.query = req.payload.query
       /\ run.tickers = req.payload.tickers
       /\ run.retrieval_mode = req.payload.retrieval_mode
       /\ run.rows = db
       /\ req' = IF run.ret.raised
                 THEN [req EXCEPT !.pc = "DONE", !.status = 500,
                                  !.retrieval = Some(run.ret)]
                 ELSE [req EXCEPT !.pc = "RETRIEVED", !.retrieval = Some(run.ret)]
  /\ UNCHANGED <<db, call>>

\* routes.py:105-155 run on an empty context without waiting for the retrieval
AssembleBeforeRetrieval ==
  /\ req.pc = "MODE_RESOLVED"
  /\ req' = [req EXCEPT !.pc = "ASSEMBLED",
                        !.assembled = Some(AssembledContext(req.payload.query,
                                                            <<>>, <<>>))]
  /\ UNCHANGED <<db, call>>

\* routes.py:105-155
AssembleForQuery ==
  /\ req.pc = "RETRIEVED"
  /\ \E run \in AssemblyRuns :
       /\ run.query = req.payload.query
       /\ run.context = Val(Val(req.retrieval).context)
       /\ req' = [req EXCEPT !.pc = "ASSEMBLED", !.sources = run.sources,
                             !.assembled = Some(run.assembled)]
  /\ UNCHANGED <<db, call>>

\* routes.py:157-187
AnalyseQuery ==
  /\ req.pc = "ASSEMBLED"
  /\ LET context == Val(Val(req.retrieval).context)
     IN \E llm \in AnalysisOutcomes :
          req' = [req EXCEPT !.pc = "ANALYSED",
                             !.analysis = Some(Analysis(llm, context.numeric_data,
                                                        context.narrative_chunks))]
  /\ UNCHANGED <<db, call>>

\* routes.py:189-215 when the condition of routes.py:191 holds
CheckContradictions ==
  /\ req.pc = "ANALYSED"
  /\ LET context == Val(Val(req.retrieval).context)
     IN /\ ContradictionCheckDue(context.retrieval_summary, context.numeric_data,
                                 context.narrative_chunks)
        /\ \E run \in CheckRuns :
             /\ run.context = context
             /\ req' = [req EXCEPT !.pc = "CONTRADICTION_CHECKED",
                                   !.detector_calls =
                                       IF IsNone(run.check.detector) THEN @ ELSE @ + 1,
                                   !.check = Some(run.check)]
  /\ UNCHANGED <<db, call>>

\* routes.py:217-238, after the check or, when routes.py:191 is false, without it
Respond ==
  /\ \/ req.pc = "CONTRADICTION_CHECKED"
     \/ /\ req.pc = "ANALYSED"
        /\ LET context == Val(Val(req.retrieval).context)
           IN ~ContradictionCheckDue(context.retrieval_summary, context.numeric_data,
                                     context.narrative_chunks)
  /\ \E latency_ms \in ElapsedMs :
       req' = [req EXCEPT !.pc = "DONE", !.status = 200,
                          !.response = Some(QueryResponse(req.payload, Val(req.analysis),
                                              Val(Val(req.retrieval).context).retrieval_summary,
                                              req.sources, latency_ms,
                                              IF IsNone(req.check) THEN None
                                              ELSE Val(req.check).contradictions))]
  /\ UNCHANGED <<db, call>>

NextRequest ==
  \/ ReceiveQuery
  \/ ResolveQueryMode
  \/ RetrieveForRequest
  \/ AssembleForQuery
  \/ AnalyseQuery
  \/ CheckContradictions
  \/ Respond

InitRequest ==
  /\ db \in RequestTables
  /\ call = NoCall
  /\ req = NoRequest

SpecRequest == InitRequest /\ [][NextRequest]_vars

\* the handler is one function that runs to its end: a step that can be taken is taken
FairSpecRequest == SpecRequest /\ WF_vars(NextRequest)

\* the compiled graph is invoked on a fresh state, graph.py:126-145
InvokeGraph ==
  /\ call = NoCall
  /\ req = NoRequest
  /\ \E query \in RequestQueries, mode \in GraphModes, tickers \in PayloadTickers :
       call' = [op |-> "graph", node |-> "retrieve", ran |-> <<>>,
                state |-> [query |-> query, mode |-> mode, tickers |-> tickers,
                           retrieval_context |-> None, raw_analysis |-> None,
                           formatted_response |-> None, error |-> None]]
  /\ UNCHANGED <<db, req>>

\* graph.py:32-57: perform_hybrid_retrieval with force_mode None and its default
\* limits, which are those of routes.py:101-102
RetrieveNode ==
  /\ call.op = "graph"
  /\ call.node = "retrieve"
  /\ \E run \in RetrievalRuns, text \in ExceptionTexts :
       /\ run.query = call.state.query
       /\ run.tickers = call.state.tickers
       /\ run.retrieval_mode = None
       /\ run.rows = db
       /\ call' = [call EXCEPT !.node = GraphEdges.retrieve,
                               !.ran = Append(@, "retrieve"),
                               !.state = retrieve_node(@, run.ret, text)]
  /\ UNCHANGED <<db, req>>

\* graph.py:60-91
ReasoningNode ==
  /\ call.op = "graph"
  /\ call.node = "reason"
  /\ \E llm \in GraphModelOutcomes :
       call' = [call EXCEPT !.node = GraphEdges.reason,
                            !.ran = Append(@, "reason"),
                            !.state = reasoning_node(@, llm)]
  /\ UNCHANGED <<db, req>>

\* graph.py:94-123
FormatNode ==
  /\ call.op = "graph"
  /\ call.node = "format"
  /\ call' = [call EXCEPT !.node = GraphEdges.format,
                          !.ran = Append(@, "format"),
                          !.state = format_node(@)]
  /\ UNCHANGED <<db, req>>

\* END: the invocation returns the state
GraphEnd ==
  /\ call.op = "graph"
  /\ call.node = "END"
  /\ call' = NoCall
  /\ UNCHANGED <<db, req>>

NextGraph ==
  \/ InvokeGraph
  \/ RetrieveNode
  \/ ReasoningNode
  \/ FormatNode
  \/ GraphEnd

SpecGraph == InitRequest /\ [][NextGraph]_vars

SpecQuery == Init /\ [][NextQuery]_vars

NextClassifier == ClassifyQueryMode \/ Return

\* the classifier reads no table: it is run over the empty one
InitClassifier ==
  /\ db = {}
  /\ call = NoCall
  /\ req = NoRequest

SpecClassifier == InitClassifier /\ [][NextClassifier]_vars

Next ==
  \/ ClassifyQueryMode
  \/ RetrieveStructuredMetrics
  \/ PerformHybridRetrieval
  \/ SearchNarrative
  \/ AssembleContext
  \/ Return
  \/ DetectContradictions
  \/ ReceiveQuery
  \/ ResolveQueryMode
  \/ RetrieveForQuery
  \/ RetrieveForRequest
  \/ AssembleForQuery
  \/ AnalyseQuery
  \/ CheckContradictions
  \/ Respond
  \/ InvokeGraph
  \/ RetrieveNode
  \/ ReasoningNode
  \/ FormatNode
  \/ GraphEnd

Spec == Init /\ [][Next]_vars

(***************************************************************************)
(* Properties.                                                             *)
(***************************************************************************)
Modes == {"numeric", "narrative", "hybrid"}

HybridCall == call.op = "perform_hybrid_retrieval"
HybridReturned == HybridCall /\ ~call.ret.raised
Ctx == Val(call.ret.context)

\* the mode the arguments of the last orchestrator call resolve to
ArgumentMode ==
  IF ModeTruthy(call.force_mode) THEN Val(call.force_mode) ELSE Classified[call.query]

\* the chunks the orchestrator is to surface from what the semantic retriever returned
SurfacedChunks ==
  IF IsNone(call.ret.semantic_ret) THEN <<>>
  ELSE LET results == Val(call.ret.semantic_ret).results
           n == Min(Len(results), Min(Max(call.narrative_limit, 1), MaxNarrativeLimit))
       IN [i \in 1..n |-> ToNarrativeChunk(results[i])]

\* C1: in hybrid mode the context's numeric_data is what the structured retriever
\* returned (nothing when it raised) whatever the semantic side did, its
\* narrative_chunks are what the semantic side produced whatever the structured
\* side did, and the mode stays hybrid.
C1_RetrievalsIndependent ==
  (HybridCall /\ ~call.env.classifier_raises /\ ArgumentMode = "hybrid") =>
    /\ ~call.ret.raised
    /\ Ctx.mode = "hybrid"
    /\ Ctx.retrieval_summary.query_mode = "hybrid"
    /\ call.ret.structured_called
    /\ Ctx.numeric_data = IF call.ret.structured_raised THEN <<>>
                          ELSE Val(call.ret.structured_ret).metrics
    /\ Ctx.narrative_chunks = SurfacedChunks

\* hybrid mode, the embedding function raised, and the numeric records are there
C1_Witness ==
  /\ HybridReturned
  /\ Ctx.mode = "hybrid"
  /\ call.embeddings_model_fn = Some("raises")
  /\ call.ret.semantic_raised
  /\ Len(Ctx.numeric_data) > 0

\* C2: whatever the structured retriever, the embedding function and the semantic
\* retriever do, the call returns a context with query, mode, both sequences and a
\* summary with a latency, and no exception leaves it; when both retrievals yield
\* nothing, both sequences are empty and both counts are 0.
C2_AlwaysReturnsContext ==
  (HybridCall /\ ~call.env.classifier_raises) =>
    /\ ~call.ret.raised
    /\ ~IsNone(call.ret.context)
    /\ DOMAIN Ctx = {"query", "mode", "numeric_data", "narrative_chunks",
                     "retrieval_summary"}
    /\ Ctx.query = call.query
    /\ Ctx.retrieval_summary.latency_ms \in Nat
    /\ ((call.ret.structured_raised \/ IsNone(call.ret.structured_ret)
           \/ Val(call.ret.structured_ret).metrics = <<>>)
        /\ SurfacedChunks = <<>>)
       => /\ Ctx.numeric_data = <<>>
          /\ Ctx.narrative_chunks = <<>>
          /\ Ctx.retrieval_summary.numeric_retrieved = 0
          /\ Ctx.retrieval_summary.narrative_retrieved = 0

\* both the structured retriever and the embedding function raised
C2_Witness ==
  /\ HybridReturned
  /\ call.ret.structured_raised
  /\ call.ret.semantic_raised
  /\ Ctx.numeric_data = <<>>
  /\ Ctx.narrative_chunks = <<>>

C4_RetrieversFollowMode ==
  HybridReturned =>
    /\ call.ret.structured_called <=> Ctx.mode \in {"numeric", "hybrid"}
    /\ (call.ret.embedded \/ ~IsNone(call.ret.semantic_ret))
         => (Ctx.mode \in {"narrative", "hybrid"} /\ ~IsNone(call.embeddings_model_fn))
    /\ Ctx.mode = "numeric" => Ctx.narrative_chunks = <<>>
    /\ Ctx.mode = "narrative" => Ctx.numeric_data = <<>>

\* a numeric-mode call with a working embedding function and a backend holding rows
C4_Witness ==
  /\ HybridReturned
  /\ Ctx.mode = "numeric"
  /\ call.embeddings_model_fn = Some("returns_vector")
  /\ Len(Ctx.numeric_data) > 0
  /\ ~call.ret.embedded

RequestRetrieved == req.pc = "RETRIEVED"
RequestContext == Val(Val(req.retrieval).context)

\* C5: a forced mode is the request's mode; with none, the classifier's answer is;
\* after a failure while resolving the mode the request goes on in mode hybrid.
C5_ModeResolution ==
  /\ (RequestRetrieved /\ ModeTruthy(req.payload.retrieval_mode))
       => RequestContext.mode = Val(req.payload.retrieval_mode)
  /\ (RequestRetrieved /\ ~ModeTruthy(req.payload.retrieval_mode)
        /\ ~req.classifier_failed)
       => RequestContext.mode = Classified[req.payload.query]
  /\ (req.pc \in {"RETRIEVED", "DONE"} /\ req.classifier_failed)
       => (req.pc = "RETRIEVED" /\ RequestContext.mode = "hybrid")

\* C6: the mode of every returned context, and its summary's query_mode, is one of
\* numeric, narrative, hybrid.
C6_ModeIsEnumerated ==
  HybridReturned =>
    (Ctx.mode \in Modes /\ Ctx.retrieval_summary.query_mode \in Modes)

StructuredCall == call.op = "retrieve_structured_metrics"

\* kw occurs in query as a substring, letter case ignored
OccursIn(kw, query) ==
  \E i \in 0..(Len(query) - Len(kw)) :
    \A j \in 1..Len(kw) : LowerChar(query[i + j]) = kw[j]
Occurring(keywords, query) ==
  Cardinality({k \in 1..Len(keywords) : OccursIn(keywords[k], query)})

Contribution(path, backend_call) ==
  IF backend_call.failed THEN <<>>
  ELSE IF path = "tickers" THEN SelectSeq(backend_call.metrics, ValidTickerMetric)
  ELSE IF path = "companies" THEN SelectSeq(backend_call.metrics, ValidCompanyMetric)
  ELSE SelectSeq(backend_call.metrics, ValidDefaultMetric)

Contributions(ret) ==
  Concat([i \in 1..Len(ret.calls) |-> Contribution(ret.path, ret.calls[i])])

\* C8: the retriever never raises; its result is the concatenation, in request
\* order, of the validated records of the backend queries that succeeded, a failed
\* one contributing nothing; when all fail the result is empty.
C8_PartialResults ==
  StructuredCall =>
    /\ ~call.ret.raised
    /\ call.ret.metrics = Contributions(call.ret)
    /\ call.ret.path = "tickers" =>
         [i \in 1..Len(call.ret.calls) |-> call.ret.calls[i].ticker]
           = [i \in 1..Len(NormalizeTickers(Val(call.tickers))) |->
                Some(NormalizeTickers(Val(call.tickers))[i])]
    /\ call.ret.path = "companies" =>
         [i \in 1..Len(call.ret.calls) |-> call.ret.calls[i].company]
           = [i \in 1..Len(NormalizeCompanies(Val(call.companies))) |->
                Some(NormalizeCompanies(Val(call.companies))[i])]
    /\ (\A i \in 1..Len(call.ret.calls) : call.ret.calls[i].failed)
         => call.ret.metrics = <<>>

\* two tickers asked, each with a valid row: the first query failed, the second
\* did not, and its record is the result
C8_Witness ==
  /\ StructuredCall
  /\ call.ret.path = "tickers"
  /\ Len(call.ret.calls) = 2
  /\ call.ret.calls[1].failed
  /\ ~call.ret.calls[2].failed
  /\ \E r \in db : r.ticker = call.ret.calls[1].ticker /\ ValidTickerMetric(r)
  /\ Len(call.ret.metrics) = 1

\* C9: every record returned, on each query path, has a non-empty ticker, a
\* non-empty company and a year in 2000..2100.
C9_ReturnedRecordsValid ==
  StructuredCall =>
    \A i \in 1..Len(call.ret.metrics) :
      /\ Truthy(call.ret.metrics[i].ticker)
      /\ call.ret.metrics[i].company # <<>>
      /\ call.ret.metrics[i].year \in MinYear..MaxYear

HasNonBlank(list) == Truthy(list) /\ \E i \in 1..Len(Val(list)) : StrStrip(Val(list)[i]) # <<>>

\* C10: with at least one non-empty ticker the result is the per-ticker fetch,
\* whatever the companies are; the per-company fetch is used only without tickers
\* and with companies; the default window only with neither.
C10_QueryPriority ==
  StructuredCall =>
    /\ HasNonBlank(call.tickers) =>
         /\ call.ret.path = "tickers"
         /\ Len(call.ret.calls) = Len(NormalizeTickers(Val(call.tickers)))
         /\ call.ret.metrics = Contributions(call.ret)
    /\ call.ret.path = "companies" => (~Truthy(call.tickers) /\ Truthy(call.companies))
    /\ call.ret.path = "default" => (~Truthy(call.tickers) /\ ~Truthy(call.companies))

\* C11: years outside 2000..2100 leave the filter; with an in-range year left,
\* every returned record has a year of the filter; with none left the call gives
\* what it gives without a year filter, and does not fail.
C11_YearFilter ==
  (StructuredCall /\ Truthy(call.years)) =>
    /\ ~call.ret.raised
    /\ call.ret.path \in {"tickers", "companies", "default"} =>
         /\ call.ret.years = (IF NormalizeYears(Val(call.years)) = <<>> THEN None
                              ELSE Some(NormalizeYears(Val(call.years))))
         /\ Truthy(call.ret.years) =>
              \A i \in 1..Len(call.ret.metrics) :
                InList(call.ret.metrics[i].year, Val(call.ret.years))
         /\ ~Truthy(call.ret.years) =>
              call.ret.metrics =
                retrieve_structured_metrics(call.tickers, call.companies, None,
                                            call.limit, db, call.fails).metrics

Clamp(x, lo, hi) == IF x < lo THEN lo ELSE IF x > hi THEN hi ELSE x

\* C12: each relational backend query of the structured retriever gets the row
\* limit clamp(limit, 1, 100); the vector backend gets the cap clamp(top_k, 1, 10)
\* and a score threshold clamped into [0, 1]; the semantic retriever returns no
\* more results than that cap.
C12_ClampedLimits ==
  /\ StructuredCall =>
       \A i \in 1..Len(call.ret.calls) :
         call.ret.calls[i].limit = Clamp(call.limit, 1, 100)
  /\ call.op = "search_narrative" =>
       /\ call.ret.top_k = Clamp(call.top_k, 1, 10)
       /\ call.ret.score_threshold = Clamp(call.score_threshold, 0, 100)
       /\ Len(call.ret.search_results) <= Clamp(call.top_k, 1, 10)
       /\ Len(call.ret.results) <= Clamp(call.top_k, 1, 10)

\* a search asked with top_k below 1 and a threshold above 1 on a collection of
\* two points returned one result
C12_Witness ==
  /\ call.op = "search_narrative"
  /\ call.top_k < 1
  /\ call.score_threshold > 100
  /\ Len(call.qdrant.points) = 2
  /\ Len(call.ret.results) = 1

\* C13: a returned context holds at most 100 numeric records, whatever the
\* numeric_limit, the tickers asked and the rows of the table.
C13_AtMost100Records ==
  HybridReturned => Len(Ctx.numeric_data) <= 100

\* a candidate whose payload values have the types the retriever expects
WellFormed(point) ==
  /\ IsStr(PayloadGet(point, "ticker", <<>>))
  /\ PayloadGet(point, "summary", 0) # NotText

\* C14: a malformed candidate of a search is skipped, and every well-formed
\* candidate of the same search that passes the filters is surfaced as a chunk.
C14_MalformedSkipped ==
  (HybridReturned /\ ~IsNone(call.ret.semantic_ret)) =>
    LET candidates == Val(call.ret.semantic_ret).search_results
    IN \A i \in 1..Len(candidates) :
         (WellFormed(candidates[i])
            /\ PassesPostFilter(candidates[i], call.tickers, None, None))
         => \E j \in 1..Len(Ctx.narrative_chunks) :
              Ctx.narrative_chunks[j].point_id = candidates[i].id

\* C15: every narrative chunk of a returned context has a text of at most 800
\* characters and a score within [0, 1], whatever the vector backend returned.
C15_ChunkCaps ==
  HybridReturned =>
    \A i \in 1..Len(Ctx.narrative_chunks) :
      /\ Ctx.narrative_chunks[i].text \in 0..800
      /\ Ctx.narrative_chunks[i].score \in 0..100

\* the backend returned a score above 1 and a negative one, and a summary longer
\* than the preview: both chunks are surfaced with their scores clamped
C15_Witness ==
  /\ HybridReturned
  /\ Len(Ctx.narrative_chunks) = 2
  /\ \E i, j \in 1..2 :
       /\ Ctx.narrative_chunks[i].point_id = 12
       /\ Ctx.narrative_chunks[i].score = 100
       /\ Ctx.narrative_chunks[j].point_id = 13
       /\ Ctx.narrative_chunks[j].score = 0
  /\ \E k \in 1..2 : Val(call.ret.semantic_ret).search_results[k].score > 100

AssembleCall == call.op = "assemble_context"
AssembleReturned == AssembleCall /\ ~call.ret.raised

\* C16: the output has at most 15 metric blocks and at most 5 narrative blocks,
\* and every narrative block renders one chunk of the input, whole.
C16_BlockBudgets ==
  AssembleReturned =>
    /\ Len(call.ret.metric_blocks) <= 15
    /\ Len(call.ret.narrative_blocks) <= 5
    /\ \A i \in 1..Len(call.ret.narrative_blocks) :
         LET block == call.ret.narrative_blocks[i]
         IN \E j \in 1..Len(call.narrative_chunks) :
              /\ call.narrative_chunks[j] = block.chunk
              /\ block.body = Min(call.narrative_chunks[j].text, 800)

\* more records than the budgets, all well-formed: 15 and 5 blocks come out
C16_Witness ==
  /\ AssembleReturned
  /\ Len(call.numeric_data) > 15
  /\ Len(call.narrative_chunks) > 5
  /\ Len(call.ret.metric_blocks) = 15
  /\ Len(call.ret.narrative_blocks) = 5

\* a metric record with a ticker and a company
WellFormedMetric(metric) ==
  /\ IsDict(metric)
  /\ metric.ticker # None /\ metric.ticker # Some(<<>>)
  /\ metric.company # <<>>

\* a chunk with a metadata dict, a ticker to cite and a document type that is text
WellFormedChunk(chunk) ==
  /\ IsDict(chunk)
  /\ IsDict(chunk.metadata)
  /\ chunk.metadata.ticker # <<>> /\ chunk.metadata.ticker # Unknown
  /\ chunk.metadata.doc_type # NotAString

\* C17: a malformed record consumes no budget: the metric blocks are as many as
\* the well-formed metric records of the input, up to 15, and the narrative blocks
\* as many as the well-formed chunks, up to 5, wherever the malformed ones are.
C17_MalformedOutsideBudget ==
  AssembleReturned =>
    /\ Len(call.ret.metric_blocks)
         = Min(15, Len(SelectSeq(call.numeric_data, WellFormedMetric)))
    /\ Len(call.ret.narrative_blocks)
         = Min(5, Len(SelectSeq(call.narrative_chunks, WellFormedChunk)))

RECURSIVE SumBodies(_, _)
SumBodies(blocks, n) == IF n = 0 THEN 0 ELSE blocks[n].body + SumBodies(blocks, n - 1)

\* C18: the rendered narrative text is at most 5,000 characters in all (one
\* truncation marker aside); no chunk is rendered once the running total is above
\* 5,000 and none is cut short by the total; a body has at most 800 characters
\* and is followed by the truncation marker exactly when its text is longer.
C18_NarrativeCharBudget ==
  AssembleReturned =>
    LET blocks == call.ret.narrative_blocks
    IN /\ SumBodies(blocks, Len(blocks)) <= 5000
       /\ call.ret.total_narrative_length = SumBodies(blocks, Len(blocks))
       /\ \A i \in 1..Len(blocks) :
            /\ SumBodies(blocks, i - 1) <= 5000
            /\ blocks[i].body <= 800
            /\ blocks[i].body = Min(blocks[i].chunk.text, 800)
            /\ blocks[i].truncated <=> blocks[i].chunk.text > 800

\* five chunks of 900 characters: each is cut to 800 and marked
C18_Witness ==
  /\ AssembleReturned
  /\ Len(call.ret.narrative_blocks) = 5
  /\ \A i \in 1..5 :
       /\ call.ret.narrative_blocks[i].chunk.text = 900
       /\ call.ret.narrative_blocks[i].body = 800
       /\ call.ret.narrative_blocks[i].truncated
  /\ call.ret.total_narrative_length = 4000

\* C19: a monetary field of 1,000,000,000 or more is shown in billions (B), a
\* smaller one in millions (M); margin, ROE and growth are shown with % only.
C19_DisplayUnits ==
  AssembleReturned =>
    \A i \in 1..Len(call.ret.metric_blocks) :
      \A k \in 1..Len(call.ret.metric_blocks[i].lines) :
        LET line == call.ret.metric_blocks[i].lines[k]
        IN IF line.label \in {"Revenue", "Net Income", "Total Assets"}
           THEN /\ line.amount >= 1000000000 => (line.suffix = "B" /\ line.per = 1000000000)
                /\ line.amount < 1000000000 => (line.suffix = "M" /\ line.per = 1000000)
           ELSE line.suffix = "%"

StripAngles(s) == SelectSeq(s, LAMBDA c : c # "<" /\ c # ">")

\* the citation line of a chunk of an earnings transcript of fiscal year 2024
TranscriptCitation(ticker) ==
  <<"[","S","o","u","r","c","e",":"," ">> \o StripAngles(ticker)
    \o <<" ","E","a","r","n","i","n","g","s"," ","T","r","a","n","s","c","r","i","p","t",
         " ","F","Y","2","0","2","4","]">>

\* C20: every rendered chunk has, in its own block, the citation line built from
\* its ticker, document type and fiscal year; no citation line holds '<' or '>';
\* a chunk without a usable ticker is not rendered.
C20_CitationLabels ==
  AssembleReturned =>
    \A i \in 1..Len(call.ret.narrative_blocks) :
      LET block == call.ret.narrative_blocks[i]
      IN /\ IsDict(block.chunk) /\ IsDict(block.chunk.metadata)
         /\ block.chunk.metadata.ticker # <<>>
         /\ block.chunk.metadata.ticker # Unknown
         /\ block.citation = TranscriptCitation(block.chunk.metadata.ticker)
         /\ \A k \in 1..Len(block.citation) :
              block.citation[k] # "<" /\ block.citation[k] # ">"

\* a chunk whose ticker is written with angle brackets is rendered under a label
\* without them, next to a list that also held a chunk without ticker
C20_Witness ==
  /\ AssembleReturned
  /\ \E i \in 1..Len(call.ret.narrative_blocks) :
       /\ call.ret.narrative_blocks[i].chunk.metadata.ticker = <<"<","B",">">>
       /\ call.ret.narrative_blocks[i].citation = TranscriptCitation(<<"B">>)
  /\ \E j \in 1..Len(call.narrative_chunks) :
       /\ IsDict(call.narrative_chunks[j])
       /\ IsDict(call.narrative_chunks[j].metadata)
       /\ call.narrative_chunks[j].metadata.ticker = <<>>


\* C21: assemble_context never raises and returns a text that ends in the
\* instruction block; a chunk whose doc_type is not a string is skipped and the
\* other records are rendered.
C21_NeverRaises ==
  AssembleCall =>
    /\ ~call.ret.raised
    /\ call.ret.instructions
    /\ \A j \in 1..Min(5, Len(call.narrative_chunks)) :
         WellFormedChunk(call.narrative_chunks[j]) =>
           \E i \in 1..Len(call.ret.narrative_blocks) :
             call.ret.narrative_blocks[i].chunk = call.narrative_chunks[j]

\* C29: the running total of rendered narrative characters is at most 4,000, so
\* the skip above 5,000 is never taken: every well-formed chunk among the first
\* five of the input is rendered.
C29_SkipNeverTaken ==
  AssembleReturned =>
    /\ call.ret.total_narrative_length <= 4000
    /\ \A j \in 1..Min(5, Len(call.narrative_chunks)) :
         WellFormedChunk(call.narrative_chunks[j]) =>
           \E i \in 1..Len(call.ret.narrative_blocks) :
             /\ call.ret.narrative_blocks[i].chunk = call.narrative_chunks[j]
             /\ SumBodies(call.ret.narrative_blocks, i - 1) <= 4000 - 800

\* six chunks of 900 characters: the first five are rendered, the last of them
\* with 3,200 characters before it, and the total is 4,000
C29_Witness ==
  /\ AssembleReturned
  /\ Len(call.narrative_chunks) = 6
  /\ \A j \in 1..6 : WellFormedChunk(call.narrative_chunks[j])
                       /\ call.narrative_chunks[j].text = 900
  /\ Len(call.ret.narrative_blocks) = 5
  /\ SumBodies(call.ret.narrative_blocks, 4) = 3200
  /\ call.ret.total_narrative_length = 4000


DetectorCall == call.op = "detect_contradictions"

\* the text the inference function returned, when it returned one
ReturnedText ==
  IF call.llm.raises \/ call.llm.result.type = "None" THEN None
  ELSE IF call.llm.result.type = "str" THEN Some(call.llm.result.text)
  ELSE IF IsNone(call.llm.result.output) \/ call.llm.result.output = Some(NotAString)
  THEN None
  ELSE call.llm.result.output

HasTag(text) ==
  \/ StrContains(TagContradiction, text)
  \/ StrContains(TagAligned, text)
  \/ StrContains(TagUnclear, text)

\* C23: when the inference function returns a text without any of the three tags,
\* the empty text included, the verdict is '[UNCLEAR]: Output format error'; every
\* verdict has at most 500 characters and holds one of the tags.
C23_FormatErrorVerdict ==
  (DetectorCall /\ call.ret.invoked) =>
    /\ (~IsNone(ReturnedText) /\ ~HasTag(Val(ReturnedText)))
         => call.ret.verdict = Some(FormatError)
    /\ ~IsNone(call.ret.verdict)
         => (Len(Val(call.ret.verdict)) <= 500 /\ HasTag(Val(call.ret.verdict)))

(***************************************************************************)
(* The contradiction check of the /query handler.                          *)
(***************************************************************************)
RequestDone == req.pc = "DONE" /\ req.status = 200

\* the detector was called during the request
DetectorInvoked ==
  req.pc # "IDLE" /\ ~IsNone(req.check) /\ ~IsNone(Val(req.check).detector)

\* the retrieval of the request has returned a context
ContextRetrieved ==
  req.pc # "IDLE" /\ ~IsNone(req.retrieval) /\ ~Val(req.retrieval).raised

DetectorReturn == Val(Val(req.check).detector)

\* C22: detect_contradictions does not raise; when the inference function raises
\* it returns null, and a null result of the detector reaches the response as a
\* null contradictions_detected.
C22_InferenceFailureIsNull ==
  DetectorInvoked =>
    /\ ~DetectorReturn.raised
    /\ Val(req.check).llm.raises => IsNone(DetectorReturn.verdict)
    /\ (IsNone(DetectorReturn.verdict) /\ RequestDone)
         => IsNone(Val(req.response).contradictions_detected)

C22_Witness ==
  /\ RequestDone
  /\ DetectorInvoked
  /\ DetectorReturn.invoked
  /\ Val(req.check).llm.raises
  /\ IsNone(DetectorReturn.verdict)
  /\ IsNone(Val(req.response).contradictions_detected)
  /\ Val(req.response).latency_ms >= 0

StartsWith(prefix, text) ==
  Len(text) >= Len(prefix) /\ SubSeq(text, 1, Len(prefix)) = prefix

\* C24: contradictions_detected of the response is not null only if the detector
\* returned a verdict that contains [CONTRADICTION], and a verdict that begins
\* with [ALIGNED] or [UNCLEAR] is not in the response.
C24_SurfacingPolicy ==
  (RequestDone /\ ~IsNone(Val(req.response).contradictions_detected)) =>
    /\ DetectorInvoked
    /\ ~IsNone(DetectorReturn.verdict)
    /\ StrContains(TagContradiction, Val(DetectorReturn.verdict))
    /\ ~StartsWith(TagAligned, Val(DetectorReturn.verdict))
    /\ ~StartsWith(TagUnclear, Val(DetectorReturn.verdict))

\* C25: a request answered in hybrid mode with at least one numeric record and
\* at least one narrative chunk has had the detector called exactly once,
\* whatever the values of the records.
C25_HybridInvokesDetector ==
  (RequestDone
     /\ RequestContext.retrieval_summary.query_mode = "hybrid"
     /\ RequestContext.numeric_data # <<>>
     /\ RequestContext.narrative_chunks # <<>>)
    => (req.detector_calls = 1 /\ DetectorInvoked /\ DetectorReturn.invoked)

\* C26: the detector is called at most once per request, and only in hybrid or
\* narrative mode with numeric records and narrative chunks both present; in
\* every other case contradictions_detected is null.
C26_DetectorCondition ==
  req.pc # "IDLE" =>
  /\ req.detector_calls <= 1
  /\ req.detector_calls = 1 =>
       /\ RequestContext.retrieval_summary.query_mode \in {"hybrid", "narrative"}
       /\ RequestContext.numeric_data # <<>>
       /\ RequestContext.narrative_chunks # <<>>
  /\ (RequestDone
        /\ ~(/\ RequestContext.retrieval_summary.query_mode \in {"hybrid", "narrative"}
             /\ RequestContext.numeric_data # <<>>
             /\ RequestContext.narrative_chunks # <<>>))
       => (req.detector_calls = 0 /\ IsNone(Val(req.response).contradictions_detected))

C26_Witness ==
  /\ RequestDone
  /\ req.detector_calls = 1
  /\ RequestContext.retrieval_summary.query_mode = "hybrid"
  /\ Len(RequestContext.numeric_data) = 2
  /\ Len(RequestContext.narrative_chunks) = 2
  /\ ~IsNone(Val(req.response).contradictions_detected)

\* C28: in narrative mode the numeric data of the context are empty, the
\* detector is not called and contradictions_detected is null.
C28_NarrativeNeverChecked ==
  (ContextRetrieved
     /\ RequestContext.retrieval_summary.query_mode = "narrative")
    => /\ RequestContext.numeric_data = <<>>
       /\ req.pc # "CONTRADICTION_CHECKED"
       /\ req.detector_calls = 0
       /\ RequestDone => IsNone(Val(req.response).contradictions_detected)

C28_Witness ==
  /\ RequestDone
  /\ db # {}
  /\ RequestContext.retrieval_summary.query_mode = "narrative"
  /\ Len(RequestContext.narrative_chunks) = 2
  /\ RequestContext.numeric_data = <<>>
  /\ req.detector_calls = 0
  /\ IsNone(Val(req.response).contradictions_detected)

(***************************************************************************)
(* The phases of a request.                                                *)
(***************************************************************************)
\* the phases that may follow a phase
NextPhases(pc) ==
  CASE pc = "IDLE" -> {"START"}
    [] pc = "START" -> {"MODE_RESOLVED", "DONE"}
    [] pc = "MODE_RESOLVED" -> {"RETRIEVED", "DONE"}
    [] pc = "RETRIEVED" -> {"ASSEMBLED"}
    [] pc = "ASSEMBLED" -> {"ANALYSED"}
    [] pc = "ANALYSED" -> {"CONTRADICTION_CHECKED", "DONE"}
    [] pc = "CONTRADICTION_CHECKED" -> {"DONE"}
    [] OTHER -> {}

\* what a request holds in each phase: the retrieval has returned before the
\* assembler runs, the assembler has run before the contradiction check, and a
\* request that is done has its response or its error status
PhaseHolds ==
  /\ req.pc \in {"RETRIEVED", "ASSEMBLED", "ANALYSED", "CONTRADICTION_CHECKED"}
       => ContextRetrieved
  /\ req.pc = "RETRIEVED" => IsNone(req.assembled)
  /\ req.pc \in {"ASSEMBLED", "ANALYSED", "CONTRADICTION_CHECKED"}
       => ~IsNone(req.assembled)
  /\ req.pc \in {"IDLE", "START", "MODE_RESOLVED", "RETRIEVED", "ASSEMBLED", "ANALYSED"}
       => ~DetectorInvoked
  /\ req.pc = "CONTRADICTION_CHECKED" => ~IsNone(req.check)
  /\ req.pc = "DONE" =>
       \/ req.status = 200 /\ ~IsNone(req.response) /\ ~IsNone(req.assembled)
                           /\ ContextRetrieved
       \/ /\ req.status = 400
          /\ QueryRejected(req.payload)
          /\ IsNone(req.retrieval) /\ IsNone(req.assembled) /\ IsNone(req.response)
       \/ /\ req.status = 500
          /\ ~ModeTruthy(req.payload.retrieval_mode)
          /\ Val(req.retrieval).raised
          /\ ~Val(req.retrieval).structured_called /\ ~Val(req.retrieval).embedded
          /\ IsNone(req.assembled) /\ IsNone(req.response)

GraphRunning == call.op = "graph"

GraphOrder == <<"retrieve", "reason", "format">>

\* C30: once a node has set state['error'], the nodes after it return the state
\* as it is; the nodes run once each in the order retrieve, reason, format, and a
\* run in which no node set an error ends with formatted_response set.
C30_ErrorFreezesState ==
  /\ [][(GraphRunning /\ ~IsNone(call.state.error) /\ call'.op = "graph")
          => call'.state = call.state]_vars
  /\ [](GraphRunning =>
          /\ call.ran = SubSeq(GraphOrder, 1, Len(call.ran))
          /\ (call.node = "END" /\ IsNone(call.state.error))
               => (call.ran = GraphOrder /\ ~IsNone(call.state.formatted_response)))

====
